---- MODULE Spec2Model ----
(*
  Model of the EIDR connector (src/src/index.ts, src/src/validate.ts,
  src/src/jsonPopulateValue.ts, jsonQuery compiler).

  JavaScript strings are sequences of atoms.  Where the code inspects single
  characters (identifiers, whitespace, colons, the "Eidr " prefix) every
  character is an atom of its own; literal text the code only copies is kept
  as one atom.  JavaScript values are tagged records.
*)
EXTENDS Integers, Sequences, FiniteSets, TLC

\* ------------------------------------------------------------------ values

Undefined == [t |-> "undefined"]

Null == [t |-> "null"]

Str(s) == [t |-> "string", v |-> s]

Num(s) == [t |-> "number", v |-> s]

Bool(b) == [t |-> "boolean", v |-> IF b THEN <<"true">> ELSE <<"false">>]

Obj(f) == [t |-> "object", f |-> f]

Arr(e) == [t |-> "array", e |-> e]

\* the empty object literal {}
EmptyObj == Obj(<<>>)

\* typeof x
TypeOf(x) ==
  IF x.t \in {"object", "array", "null"} THEN "object" ELSE x.t

\* JavaScript truthiness
Truthy(x) ==
  CASE x.t = "undefined" -> FALSE
    [] x.t = "null"      -> FALSE
    [] x.t = "string"    -> x.v # <<>>
    [] x.t = "number"    -> x.v \notin {<<"0">>, <<"NaN">>}
    [] x.t = "boolean"   -> x.v = <<"true">>
    [] OTHER             -> TRUE

\* property read x[k]; a missing property reads as undefined
Get(x, k) ==
  IF x.t = "object" /\ k \in DOMAIN x.f THEN x.f[k] ELSE Undefined

\* `${x}` for the values the model interpolates
ToStr(x) ==
  CASE x.t \in {"string", "number", "boolean"} -> x.v
    [] x.t = "undefined" -> <<"undefined">>
    [] x.t = "null"      -> <<"null">>
    [] x.t = "array"     -> <<"[array]">>
    [] OTHER             -> <<"[object Object]">>

\* ----------------------------------------------------------------- strings

WS == {" ", "\t", "\n"}

RECURSIVE TrimStart(_)
TrimStart(s) ==
  IF s # <<>> /\ Head(s) \in WS THEN TrimStart(Tail(s)) ELSE s

RECURSIVE TrimEnd(_)
TrimEnd(s) ==
  IF s # <<>> /\ s[Len(s)] \in WS THEN TrimEnd(SubSeq(s, 1, Len(s) - 1)) ELSE s

\* String.prototype.trim
Trim(s) == TrimEnd(TrimStart(s))

\* String.prototype.startsWith
StartsWith(s, p) == Len(s) >= Len(p) /\ SubSeq(s, 1, Len(p)) = p

\* String.prototype.split(sep) for a one-atom separator
RECURSIVE SplitAcc(_, _, _)
SplitAcc(s, sep, cur) ==
  IF s = <<>> THEN <<cur>>
  ELSE IF Head(s) = sep THEN <<cur>> \o SplitAcc(Tail(s), sep, <<>>)
  ELSE SplitAcc(Tail(s), sep, Append(cur, Head(s)))

Split(s, sep) == SplitAcc(s, sep, <<>>)

\* ------------------------------------------------------------------ errors

NoError == [class |-> "none", message |-> <<>>, status |-> 0, details |-> <<>>]

\* new EIDRError(message, status, details)
EIDRError(message, status, details) ==
  [class |-> "EIDRError", message |-> <<"EIDRConnector: ">> \o message,
   status |-> status, details |-> details]

\* new EIDRError(message, status): details defaults to message
EIDRError2(message, status) == EIDRError(message, status, message)

\* new Error(message): no status, no details
PlainError(message) ==
  [class |-> "Error", message |-> message, status |-> 0, details |-> <<>>]

\* the TypeError the runtime raises on a property read or call on undefined
TypeError(message) ==
  [class |-> "TypeError", message |-> message, status |-> 0, details |-> <<>>]

\* -------------------------------------------------------------- validateId

Digits == {"0", "1", "2", "3", "4", "5", "6", "7", "8", "9"}

HexChars == Digits \cup {"A", "B", "C", "D", "E", "F"}

CheckChars == Digits \cup
  {"A", "B", "C", "D", "E", "F", "G", "H", "I", "J", "K", "L", "M",
   "N", "O", "P", "Q", "R", "S", "T", "U", "V", "W", "X", "Y", "Z"}

\* /^10\.5240\/([0-9A-F]{4}-){5}[0-9A-Z]$/
ContentRe(s) ==
  /\ Len(s) = 34
  /\ SubSeq(s, 1, 8) = <<"1", "0", ".", "5", "2", "4", "0", "/">>
  /\ \A g \in 0..4 :
       /\ \A k \in 1..4 : s[8 + 5 * g + k] \in HexChars
       /\ s[8 + 5 * g + 5] = "-"
  /\ s[34] \in CheckChars

\* the expression with the namespace 10.5238 let through as well
OtherRe8(s) ==
  /\ Len(s) = 17
  /\ SubSeq(s, 1, 6) = <<"1", "0", ".", "5", "2", "3">>
  /\ s[7] \in {"7", "8", "9"}
  /\ s[8] = "/"
  /\ \A k \in 9..12 : s[k] \in HexChars
  /\ s[13] = "-"
  /\ \A k \in 14..17 : s[k] \in HexChars

\* /^10\.523[79]\/[0-9A-F]{4}-[0-9A-F]{4}$/
OtherRe(s) ==
  /\ Len(s) = 17
  /\ SubSeq(s, 1, 6) = <<"1", "0", ".", "5", "2", "3">>
  /\ s[7] \in {"7", "9"}
  /\ s[8] = "/"
  /\ \A k \in 9..12 : s[k] \in HexChars
  /\ s[13] = "-"
  /\ \A k \in 14..17 : s[k] \in HexChars

\* validateId with the namespace digits left unchecked
validateIdAnyPrefix(id) ==
  TypeOf(id) = "string" /\ (ContentRe(id.v) \/ OtherRe(id.v)
                             \/ Len(id.v) \in {17, 34})

validateId(id) ==
  TypeOf(id) = "string" /\ (ContentRe(id.v) \/ OtherRe(id.v))

\* ----------------------------------------------------------- Authorization

\* the result of `new Authorization(credentials)`: err is NoError when the
\* constructor returns, and then the three public fields are set
AuthOk(endpoint, headers, registered) ==
  [err |-> NoError, endpoint |-> endpoint, headers |-> headers,
   registered |-> registered]

AuthThrow(e) ==
  [err |-> e, endpoint |-> <<>>, headers |-> <<>>, registered |-> FALSE]

\* the local function validate(tag, value) of the constructor
AuthValidateFails(value) ==
  value.t # "string" \/ Len(Trim(value.v)) = 0

AuthValidateError(tag) == EIDRError2(<<"Invalid ", tag>>, 401)

\* /^Eidr [^\s]+:[^\s]+:[^\s]+$/
CredentialsRe(s) ==
  /\ Len(s) >= 5
  /\ SubSeq(s, 1, 5) = <<"E", "i", "d", "r", " ">>
  /\ LET r == SubSeq(s, 6, Len(s)) IN
       /\ \A k \in 1..Len(r) : r[k] \notin WS
       /\ \E i, j \in 1..Len(r) :
            /\ r[i] = ":" /\ r[j] = ":"
            /\ 1 < i /\ i + 1 < j /\ j < Len(r)

\* { Authorization: `Eidr ${userId}:${partyId}:${shadow}` }; the empty
\* sequence stands for the empty header set {}
AuthHeader(userId, partyId, shadow) ==
  <<"E", "i", "d", "r", " ">> \o userId \o <<":">> \o partyId \o <<":">> \o shadow

\* crypto.createHash('md5').update(password).digest('base64')
Md5Base64(password) == <<"md5[">> \o password \o <<"]">>

DefaultDomain == <<"resolve.eidr.org">>

Endpoint(domain) == <<"https://">> \o domain \o <<"/EIDR/">>

\* the string branch of the constructor
AuthorizationString(s) ==
  IF ~CredentialsRe(s)
  THEN AuthThrow(EIDRError2(<<"Invalid credentials string">>, 401))
  ELSE LET parts == Split(SubSeq(s, 6, Len(s)), ":") IN
       AuthOk(Endpoint(DefaultDomain),
              AuthHeader(parts[1], parts[2], parts[3]), TRUE)

\* the trailing domain selection of the constructor, for object credentials
AuthorizationDomain(credentials, headers, registered) ==
  LET domain == Get(credentials, "domain") IN
  IF ~Truthy(domain) THEN AuthOk(Endpoint(DefaultDomain), headers, registered)
  ELSE IF AuthValidateFails(domain) THEN AuthThrow(AuthValidateError("domain"))
  ELSE AuthOk(Endpoint(Trim(domain.v)), headers, registered)

\* the object branch of the constructor
AuthorizationObject(credentials) ==
  LET userId   == Get(credentials, "userId")
      partyId  == Get(credentials, "partyId")
      password == Get(credentials, "password")
      shadow   == Get(credentials, "shadow")
  IN
  IF ~Truthy(userId) THEN AuthorizationDomain(credentials, <<>>, FALSE)
  ELSE IF AuthValidateFails(userId) THEN AuthThrow(AuthValidateError("userId"))
  ELSE IF AuthValidateFails(partyId) THEN AuthThrow(AuthValidateError("partyId"))
  ELSE IF Truthy(password) THEN
    IF AuthValidateFails(password) THEN AuthThrow(AuthValidateError("password"))
    ELSE AuthorizationDomain(credentials,
           AuthHeader(Trim(userId.v), Trim(partyId.v),
                      Md5Base64(Trim(password.v))), TRUE)
  ELSE IF Truthy(shadow) THEN
    IF AuthValidateFails(shadow) THEN AuthThrow(AuthValidateError("shadow"))
    ELSE AuthorizationDomain(credentials,
           AuthHeader(Trim(userId.v), Trim(partyId.v), Trim(shadow.v)), TRUE)
  ELSE AuthThrow(EIDRError(<<"Missing password">>, 401,
                           <<"Password of shadow must be part of credentials">>))

\* new Authorization(credentials)
Authorization(credentials) ==
  IF credentials.t = "string" THEN AuthorizationString(credentials.v)
  ELSE AuthorizationObject(credentials)

\* ------------------------------------------------------ jsonPopulateValue

\* jsonFormatWithValueRules, each rule as rule.split('.') leaves it
jsonFormatWithValueRules ==
  << <<"ExtraObjectMetadata", "EpisodeInfo", "SequenceInfo", "DistributionNumber">> >>

\* { value: x }
Wrapped(x) == Obj([value |-> x])

\* obj[k] = x on an object
SetKey(o, k, x) ==
  Obj([q \in (DOMAIN o.f) \cup {k} |-> IF q = k THEN x ELSE o.f[q]])

\* the forEach of the final segment over an array found under the key: the
\* assignment target is jsonToParse[i], the enclosing object
RECURSIVE WrapArrayItems(_, _, _)
WrapArrayItems(o, items, i) ==
  IF i > Len(items) THEN o
  ELSE WrapArrayItems(
         IF TypeOf(items[i]) # "object"
           THEN SetKey(o, ToString(i - 1), Wrapped(items[i]))
           ELSE o,
         items, i + 1)

\* the test of the final segment with the typeof check left out
ShouldWrapAnything(child) == Truthy(child)

\* typeof jsonToParse[currentField] !== 'object' && jsonToParse[currentField]
ShouldWrap(child) == TypeOf(child) # "object" /\ Truthy(child)

RECURSIVE parseJsonWithOneRule(_, _)

\* the wildcard branch going on with the remaining segments only
WildcardVisitOneLevel(child, fields, subFields) ==
  parseJsonWithOneRule(child, subFields)

\* the body of the forEach of the wildcard branch: the rule is tried on the
\* child with the wildcard kept, then with the wildcard consumed
WildcardVisit(child, fields, subFields) ==
  parseJsonWithOneRule(parseJsonWithOneRule(child, fields), subFields)

\* parseJsonWithOneRule(jsonToParse, fields): the tree jsonToParse is after
\* the call (the code rewrites it in place and returns nothing)
parseJsonWithOneRule(jsonToParse, fields) ==
  IF Len(fields) = 0 \/ ~Truthy(jsonToParse) THEN jsonToParse
  ELSE
  LET currentField == fields[1]
      child        == Get(jsonToParse, currentField)
      subFields    == SubSeq(fields, 2, Len(fields))
  IN
  IF Len(fields) = 1 THEN
    IF child.t = "array" THEN WrapArrayItems(jsonToParse, child.e, 1)
    ELSE IF ShouldWrap(child)
      THEN SetKey(jsonToParse, currentField, Wrapped(child))
    ELSE jsonToParse
  ELSE IF currentField = "*" THEN
    IF jsonToParse.t = "object" THEN
      Obj([k \in DOMAIN jsonToParse.f |->
             WildcardVisit(jsonToParse.f[k], fields, subFields)])
    ELSE IF jsonToParse.t = "array" THEN
      Arr([i \in 1..Len(jsonToParse.e) |->
             WildcardVisit(jsonToParse.e[i], fields, subFields)])
    ELSE jsonToParse
  ELSE IF Truthy(child) THEN
    IF child.t = "array" THEN
      SetKey(jsonToParse, currentField,
             Arr([i \in 1..Len(child.e) |->
                    parseJsonWithOneRule(child.e[i], subFields)]))
    ELSE SetKey(jsonToParse, currentField,
                parseJsonWithOneRule(child, subFields))
  ELSE jsonToParse

\* the forEach over the rules: the argument tree after every rule was applied
RECURSIVE ApplyRules(_, _, _)
ApplyRules(json, rules, i) ==
  IF i > Len(rules) THEN json
  ELSE ApplyRules(parseJsonWithOneRule(json, rules[i]), rules, i + 1)

\* what parseJsonWithValue leaves in the tree it was handed
parseJsonRewritten(json) ==
  IF ~Truthy(json) \/ TypeOf(json) # "object" THEN json
  ELSE ApplyRules(json, jsonFormatWithValueRules, 1)

\* the value parseJsonWithValue(json) returns: the early return hands back
\* json; the path through the forEach ends without a return statement
parseJsonWithValue(json) ==
  IF ~Truthy(json) \/ TypeOf(json) # "object" THEN json
  ELSE Undefined

\* --------------------------------------------------------------- jsonQuery

\* the outcome of a compiler function: the expression it returns, or the
\* error it throws
Ret(expr) == [err |-> NoError, expr |-> expr]

Throw(e) == [err |-> e, expr |-> <<>>]

\* JSON.stringify(x) / `${x}` inside the compiler's messages
Shown(x) ==
  IF x.t \in {"object", "array"} THEN <<"{..}">> ELSE ToStr(x)

\* Object.keys(x) for a non-null object or an array
Keys(x) ==
  IF x.t = "object" THEN DOMAIN x.f
  ELSE IF x.t = "array" THEN {ToString(i - 1) : i \in 1..Len(x.e)}
  ELSE {}

\* a string value used as a property name
KeyOf(x) ==
  IF x.t = "string" /\ Len(x.v) = 1 THEN x.v[1] ELSE "?"

\* the error assertSingleProperty(obj) throws, NoError when it returns
assertSinglePropertyError(obj) ==
  IF TypeOf(obj) # "object"
    THEN PlainError(<<"Not an object: ">> \o Shown(obj))
  ELSE IF obj.t = "null"
    THEN TypeError(<<"Cannot convert undefined or null to object">>)
  ELSE IF Cardinality(Keys(obj)) # 1
    THEN PlainError(<<"Object must have one single property: ">> \o Shown(obj))
  ELSE NoError

\* [Object.keys(obj)[0], Object.values(obj)[0]] of a one-property object
SingleKey(obj) == CHOOSE k \in Keys(obj) : TRUE

SingleValue(obj) ==
  IF obj.t = "array" THEN obj.e[1] ELSE obj.f[SingleKey(obj)]

\* Array.prototype.join
RECURSIVE Join(_, _)
Join(list, sep) ==
  IF Len(list) = 0 THEN <<>>
  ELSE IF Len(list) = 1 THEN list[1]
  ELSE list[1] \o sep \o Join(Tail(list), sep)

\* Array.prototype.flat on a list of lists
RECURSIVE Flat(_)
Flat(lists) ==
  IF Len(lists) = 0 THEN <<>> ELSE Head(lists) \o Flat(Tail(lists))

\* list.split(' ').filter((s) => 0 < s.length)
RECURSIVE NonEmpty(_)
NonEmpty(list) ==
  IF Len(list) = 0 THEN <<>>
  ELSE IF Len(Head(list)) > 0 THEN <<Head(list)>> \o NonEmpty(Tail(list))
  ELSE NonEmpty(Tail(list))

Words(s) == NonEmpty(Split(s, " "))

\* op.toUpperCase() for the two joiners
UpperCase(op) == IF op = "and" THEN "AND" ELSE IF op = "or" THEN "OR" ELSE op

\* nary with the parentheses put around a single expression too
naryAlwaysWrapped(op, expressions) ==
  IF \E i \in 1..Len(expressions) : Len(Trim(expressions[i])) = 0
    THEN Throw(PlainError(<<UpperCase(op), " requires string expressions: ">>))
  ELSE
    Ret(<<"(">> \o Join([i \in 1..Len(expressions) |-> Trim(expressions[i])],
                        <<" ", UpperCase(op), " ">>) \o <<")">>)

\* nary(op, expressions); expressions is a list of strings (the callers only
\* pass arrays of strings)
nary(op, expressions) ==
  IF \E i \in 1..Len(expressions) : Len(Trim(expressions[i])) = 0
    THEN Throw(PlainError(<<UpperCase(op), " requires string expressions: ">>))
  ELSE
    LET many == 1 < Len(expressions)
        body == Join([i \in 1..Len(expressions) |-> Trim(expressions[i])],
                     <<" ", UpperCase(op), " ">>)
    IN Ret((IF many THEN <<"(">> ELSE <<>>) \o body
           \o (IF many THEN <<")">> ELSE <<>>))

OR(expressions) == nary("or", expressions)

NOT(expression) ==
  IF Len(Trim(expression)) = 0
    THEN Throw(PlainError(<<"NOT requires a string expression: ">> \o expression))
  ELSE Ret(<<"(", "NOT", " ">> \o expression \o <<")">>)

textElements ==
  [title       |-> << <<"ResourceName">> >>,
   alttitle    |-> << <<"AlternateResourceName">> >>,
   anytitle    |-> << <<"ResourceName">>, <<"AlternateResourceName">> >>,
   coo         |-> << <<"CountryOfOrigin">> >>,
   struct      |-> << <<"StructuralType">> >>,
   reftype     |-> << <<"ReferentType">> >>,
   lang        |-> << <<"OriginalLanguage">> >>,
   aoname      |-> << <<"AssociatedOrg/DisplayName">> >>,
   aoaltname   |-> << <<"Associatedorg/AlternateName">> >>,
   aoanyname   |-> << <<"AssociatedOrg/DisplayName">>,
                      <<"AssociatedOrg/AlternateName">> >>,
   aoid        |-> << <<"AssociatedOrg@organizationID">> >>,
   actor       |-> << <<"Credits/Actor/DisplayName">>,
                      <<"Credits/Actor/SortName">> >>,
   director    |-> << <<"Credits/Director/DisplayName">>,
                      <<"Credits/Director/SortName">> >>,
   contributor |-> << <<"Credits/Director/DisplayName">>,
                      <<"Credits/Actor/DisplayName">> >>,
   altid       |-> << <<"AlternateID">> >>,
   altidtype   |-> << <<"AlternateID@type">> >>,
   altiddomain |-> << <<"AlternateID@domain">> >>]

\* what the object literal textElements inherits from Object.prototype and
\* the in operator finds as well: methods, each with its length
ObjectPrototypeLength ==
  [constructor |-> 1, hasOwnProperty |-> 1, toString |-> 0, valueOf |-> 0]

BaseObjectData == <<"/FullMetadata/BaseObjectData/">>

ExtraObjectMetadata == <<"/FullMetadata/ExtraObjectMetadata/">>

\* `(${p} ${w})`
LooseLeaf(p, w) == <<"(">> \o p \o <<" ">> \o w \o <<")">>

\* `(${p} "${text}")`
QuotedLeaf(p, text) == <<"(">> \o p \o <<" ", "\"">> \o text \o <<"\"", ")">>

\* `(${p} IS "${text}")`
IsLeaf(p, text) ==
  <<"(">> \o p \o <<" ", "IS", " ", "\"">> \o text \o <<"\"", ")">>

\* `(${p} ${op} ${value})`
OpLeaf(p, op, value) == <<"(">> \o p \o <<" ", op, " ">> \o value \o <<")">>

\* `(${p} EXISTS)`
ExistsLeaf(p) == <<"(">> \o p \o <<" ", "EXISTS", ")">>

textQuery(key, obj) ==
  IF assertSinglePropertyError(obj) # NoError
    THEN Throw(assertSinglePropertyError(obj))
  ELSE
  LET op   == SingleKey(obj)
      list == SingleValue(obj)
  IN
  IF list.t # "string"
    THEN Throw(PlainError(<<"Invalid text query word list: ">> \o Shown(list)))
  ELSE
  LET words == Words(list.v)
      te    == [i \in 1..Len(textElements[key]) |->
                  BaseObjectData \o textElements[key][i]]
  IN
  IF Len(words) = 0
    THEN Throw(PlainError(<<"Empty text query word list: ">> \o list.v))
  ELSE IF key \notin DOMAIN textElements
    THEN Throw(TypeError(<<"textElements[key].map is not a function">>))
  ELSE IF op = "words"
    THEN OR(Flat([i \in 1..Len(te) |->
                    [j \in 1..Len(words) |-> LooseLeaf(te[i], words[j])]]))
  ELSE IF op = "contains"
    THEN OR([i \in 1..Len(te) |-> QuotedLeaf(te[i], Join(words, <<" ">>))])
  ELSE IF op = "exact"
    THEN OR([i \in 1..Len(te) |-> IsLeaf(te[i], Join(words, <<" ">>))])
  ELSE Throw(PlainError(<<"Invalid text query operation: ", op>>))

\* idQuery with the count check of exact mode left out
idQueryAnyCount(obj) ==
  IF assertSinglePropertyError(obj) # NoError
    THEN Throw(assertSinglePropertyError(obj))
  ELSE
  LET op   == SingleKey(obj)
      list == SingleValue(obj)
  IN
  IF list.t # "string"
    THEN Throw(PlainError(<<"Invalid ID list: ">> \o Shown(list)))
  ELSE
  LET ids == Words(list.v) IN
  IF Len(ids) = 0
    THEN Throw(PlainError(<<"Empty ID list: ">> \o list.v))
  ELSE IF \E i \in 1..Len(ids) : ~validateId(Str(ids[i]))
    THEN Throw(PlainError(<<"Invalid ID: ">>))
  ELSE IF op = "words"
    THEN OR([i \in 1..Len(ids) |-> BaseObjectData \o <<"ID", " ">> \o ids[i]])
  ELSE IF op = "exact"
    THEN Ret(<<"(">> \o BaseObjectData \o <<"ID", " ">> \o ids[1] \o <<")">>)
  ELSE Throw(PlainError(<<"Invalid ID query operation: ", op>>))

idQuery(obj) ==
  IF assertSinglePropertyError(obj) # NoError
    THEN Throw(assertSinglePropertyError(obj))
  ELSE
  LET op   == SingleKey(obj)
      list == SingleValue(obj)
  IN
  IF list.t # "string"
    THEN Throw(PlainError(<<"Invalid ID list: ">> \o Shown(list)))
  ELSE
  LET ids == Words(list.v) IN
  IF Len(ids) = 0
    THEN Throw(PlainError(<<"Empty ID list: ">> \o list.v))
  ELSE IF \E i \in 1..Len(ids) : ~validateId(Str(ids[i]))
    THEN Throw(PlainError(<<"Invalid ID: ">>
           \o ids[CHOOSE i \in 1..Len(ids) :
                    /\ ~validateId(Str(ids[i]))
                    /\ \A j \in 1..(i - 1) : validateId(Str(ids[j]))]))
  ELSE IF op = "words"
    THEN OR([i \in 1..Len(ids) |-> BaseObjectData \o <<"ID", " ">> \o ids[i]])
  ELSE IF op = "exact"
    THEN IF Len(ids) # 1
           THEN Throw(PlainError(<<"Excat ID expect single ID, but found ",
                                   ToString(Len(ids))>>))
           ELSE Ret(<<"(">> \o BaseObjectData \o <<"ID", " ">> \o ids[1] \o <<")">>)
  ELSE Throw(PlainError(<<"Invalid ID query operation: ", op>>))

ReleaseDate == BaseObjectData \o <<"ReleaseDate">>

ApproximateLength == BaseObjectData \o <<"ApproximateLength">>

dateQuery(obj) ==
  IF assertSinglePropertyError(obj) # NoError
    THEN Throw(assertSinglePropertyError(obj))
  ELSE
  LET op   == SingleKey(obj)
      date == SingleValue(obj)
  IN
  IF date.t # "string" \/ Len(Trim(date.v)) = 0
    THEN Throw(PlainError(<<"Invalid date: ">> \o Shown(date)))
  ELSE IF op = "date"   THEN Ret(LooseLeaf(ReleaseDate, date.v))
  ELSE IF op = "before" THEN Ret(OpLeaf(ReleaseDate, "<=", date.v))
  ELSE IF op = "after"  THEN Ret(OpLeaf(ReleaseDate, ">=", date.v))
  ELSE Throw(PlainError(<<"Invalid date query operation: ", op>>))

lengthQuery(obj) ==
  IF assertSinglePropertyError(obj) # NoError
    THEN Throw(assertSinglePropertyError(obj))
  ELSE
  LET op     == SingleKey(obj)
      length == SingleValue(obj)
  IN
  IF length.t # "string" \/ Len(Trim(length.v)) = 0
    THEN Throw(PlainError(<<"Invalid length: ">> \o Shown(length)))
  ELSE IF op = "length"    THEN Ret(LooseLeaf(ApproximateLength, length.v))
  ELSE IF op = "maxlength" THEN Ret(OpLeaf(ApproximateLength, "<=", length.v))
  ELSE IF op = "minlength" THEN Ret(OpLeaf(ApproximateLength, ">=", length.v))
  ELSE Throw(PlainError(<<"Invalid length query operation: ", op>>))

existsQuery(element) ==
  IF element = Str(<<"date">>) THEN Ret(ExistsLeaf(ReleaseDate))
  ELSE IF element = Str(<<"length">>) THEN Ret(ExistsLeaf(ApproximateLength))
  ELSE IF KeyOf(element) \in DOMAIN ObjectPrototypeLength
    THEN IF ObjectPrototypeLength[KeyOf(element)] # 1
           THEN Throw(PlainError(<<"Invalid element for EXISTS query: ">>
                                 \o Shown(element)))
           ELSE Ret(ExistsLeaf(BaseObjectData \o <<"undefined">>))
  ELSE IF KeyOf(element) \notin DOMAIN textElements
    THEN Throw(PlainError(<<"Invalid element: ">> \o Shown(element)))
  ELSE IF Len(textElements[KeyOf(element)]) # 1
    THEN Throw(PlainError(<<"Invalid element for EXISTS query: ">>
                          \o Shown(element)))
  ELSE Ret(ExistsLeaf(BaseObjectData \o textElements[KeyOf(element)][1]))

DerivativeInfos ==
  <<"SeasonInfo", "ClipInfo", "ManifestationInfo", "EpisodeInfo", "EditInfo">>

isRootQuery(value) ==
  IF value.t # "boolean"
    THEN Throw(PlainError(<<"isroot value must be boolean: ">> \o Shown(value)))
  ELSE
  LET notRootQuery ==
        OR([i \in 1..Len(DerivativeInfos) |->
              ExistsLeaf(ExtraObjectMetadata \o <<DerivativeInfos[i]>>)])
  IN IF value.v = <<"true">> THEN NOT(notRootQuery.expr) ELSE notRootQuery

parentQuery(id) ==
  IF ~validateId(id)
    THEN Throw(PlainError(<<"Invalida parent ID: ">> \o Shown(id)))
  ELSE OR([i \in 1..Len(DerivativeInfos) |->
             LooseLeaf(ExtraObjectMetadata \o <<DerivativeInfos[i], "/Parent">>,
                       id.v)])

RECURSIVE buildJsonQuery(_)
buildJsonQuery(obj) ==
  IF assertSinglePropertyError(obj) # NoError
    THEN Throw(assertSinglePropertyError(obj))
  ELSE
  LET element == SingleKey(obj)
      value   == SingleValue(obj)
  IN
  IF element \in {"and", "or"} THEN
    IF value.t # "array"
      THEN Throw(TypeError(<<"value.map is not a function">>))
    ELSE
    LET parts == [i \in 1..Len(value.e) |-> buildJsonQuery(value.e[i])] IN
    IF \E i \in 1..Len(parts) : parts[i].err # NoError
      THEN parts[CHOOSE i \in 1..Len(parts) :
                   /\ parts[i].err # NoError
                   /\ \A j \in 1..(i - 1) : parts[j].err = NoError]
      ELSE nary(element, [i \in 1..Len(parts) |-> parts[i].expr])
  ELSE IF element = "not" THEN
    LET inner == buildJsonQuery(value) IN
    IF inner.err # NoError THEN inner ELSE NOT(inner.expr)
  ELSE IF element \in DOMAIN textElements \cup DOMAIN ObjectPrototypeLength
    THEN textQuery(element, value)
  ELSE IF element = "id"     THEN idQuery(value)
  ELSE IF element = "date"   THEN dateQuery(value)
  ELSE IF element = "length" THEN lengthQuery(value)
  ELSE IF element = "exists" THEN existsQuery(value)
  ELSE IF element = "isroot" THEN isRootQuery(value)
  ELSE IF element = "parent" THEN parentQuery(value)
  ELSE Throw(PlainError(<<"Invalid element: ", element>>))

\* ------------------------------------------------------------ the connector

availableApiVersions == << <<"2.6.0">>, <<"2.7.0">> >>

eidrApiVersion == <<"2.7.0">>

GraphTraversalTypes ==
  {"FindAncestors", "FindDescendants", "GetDependents", "GetSeriesAncestry",
   "GetLightweightRelationships", "GetRemotestAncestor", "GetLeafDescendants",
   "GetParent", "GetChildren"}

\* the auth argument left undefined by a caller of request()
UndefinedAuth == AuthThrow(NoError)

\* credentials ? new Authorization(credentials) : undefined
PerCallAuth(credentials) ==
  IF Truthy(credentials) THEN Authorization(credentials) ELSE UndefinedAuth

\* renderOperationRequest(operation)
renderOperationRequest(operation) ==
  <<"<Request xmlns=\"http://www.eidr.org/schema\">", "<Operation>">>
  \o operation \o <<"</Operation>", "</Request>">>

\* `${x || dflt}`
OrDefault(x, dflt) == IF Truthy(x) THEN ToStr(x) ELSE dflt

\* renderQueryRequest(query, opts)
renderQueryRequest(query, opts) ==
  renderOperationRequest(
    <<"<Query>">>
    \o (IF Truthy(Get(opts, "root"))
          THEN <<"<ID>">> \o ToStr(Get(opts, "root")) \o <<"</ID>">>
          ELSE <<>>)
    \o <<"<Expression><![CDATA[">> \o query \o <<"]]></Expression>">>
    \o <<"<PageNumber>">> \o OrDefault(Get(opts, "pageNumber"), <<"1">>)
    \o <<"</PageNumber>">>
    \o <<"<PageSize>">> \o OrDefault(Get(opts, "pageSize"), <<"25">>)
    \o <<"</PageSize>">>
    \o <<"</Query>">>)

\* renderGraphTraversalRequest(id, graphRequest)
renderGraphTraversalRequest(id, graphRequest) ==
  renderOperationRequest(
    <<"<">> \o graphRequest \o <<">", "<ID>">> \o id \o <<"</ID>", "</">>
    \o graphRequest \o <<">">>)

\* encodeURIComponent(id) on the characters an identifier is made of
encodeURIComponent(s) ==
  [i \in 1..Len(s) |-> IF s[i] = "/" THEN "%2F" ELSE s[i]]

\* request() sending with the connector's own authorization whatever the
\* caller selected
requestWithOwnAuthorization(this, method, path, auth, body, customEidrVersion) ==
  [method        |-> method,
   url           |-> this.endpoint \o path,
   Authorization |-> this.headers,
   ContentType   |-> "text/xml",
   EIDRVersion   |-> OrDefault(customEidrVersion, eidrApiVersion),
   body          |-> body]

\* the fetch() call of request(): the request as it goes out.  auth defaults
\* to the connector's own authorization when the caller left it undefined
request(this, method, path, auth, body, customEidrVersion) ==
  LET a == IF auth = UndefinedAuth THEN this ELSE auth IN
  [method        |-> method,
   url           |-> a.endpoint \o path,
   Authorization |-> a.headers,
   ContentType   |-> "text/xml",
   EIDRVersion   |-> OrDefault(customEidrVersion, eidrApiVersion),
   body          |-> body]

\* request() with the check of res.status left out
requestErrorIgnored(http) == NoError

\* what request() hands back once fetch() has answered: the parsed document,
\* or the API error for a status other than 200
requestError(http) ==
  IF http.status # 200
    THEN EIDRError(<<"API error">>, http.status,
           <<"HTTP error accessing EIDR registry API: ", ToString(http.status),
             " ", http.statusText>>)
    ELSE NoError

\* the synchronous part of a handler: the error it throws before any await
\* (NoError when it reaches the await), the requests it issued, and the
\* private method that is left waiting
Started(err, sent, route) == [err |-> err, sent |-> sent, route |-> route]

\* the rest of a handler after the await: the error thrown or the value
\* returned, with the argument and result of parseJsonWithValue when the
\* handler got that far
Finished(err, value, normCalled, normIn, normOut) ==
  [err |-> err, value |-> value, normCalled |-> normCalled, normIn |-> normIn,
   normOut |-> normOut]

Failed(err) == Finished(err, Undefined, FALSE, Undefined, Undefined)

\* return parseJsonWithValue(json)
Normalized(json) ==
  Finished(NoError, parseJsonWithValue(json), TRUE, json, parseJsonWithValue(json))

\* the registered guard left out
UnregisteredNever(auth) == FALSE

\* if (!auth.registered), the guard of query and graphTraversal
Unregistered(auth) == ~auth.registered

\* the 'Unregistered' check shared by query and graphTraversal
UnregisteredError ==
  EIDRError(<<"Unregistered">>, 401,
            <<"Query requires registered user credentials">>)

\* the registry status error of query and graphTraversal
StatusError(status) ==
  LET code    == Get(status, "Code")
      message == <<"Error ">> \o ToStr(code) \o <<" ">> \o ToStr(Get(status, "Type"))
      details == Get(status, "Details")
  IN EIDRError(message,
               IF code = Str(<<"4">>) \/ code = Str(<<"5">>) THEN 403 ELSE 500,
               IF details = Undefined THEN message ELSE ToStr(details))

\* the registry status error of resolveContentID and resolveOtherID
ResolveStatusError(id, status) ==
  EIDRError(<<"Error ">> \o ToStr(Get(status, "Code")) \o <<" ">>
              \o ToStr(Get(status, "Type")),
            500,
            <<"Registry error: id=">> \o id.v \o <<" type=">>
              \o ToStr(Get(status, "Type")))

\* the status check of resolve left out
ResolveStatusNeverFails(res) == FALSE

\* res.Response && res.Response.Status && res.Response.Status.Code !== '0'
ResolveStatusFails(res) ==
  /\ Truthy(Get(res, "Response"))
  /\ Truthy(Get(Get(res, "Response"), "Status"))
  /\ Get(Get(Get(res, "Response"), "Status"), "Code") # Str(<<"0">>)

\* the unrecognized-response error with the view left out of its detail
UnrecognizedResolveNoView(id, type) ==
  EIDRError(<<"Unrecognized response">>, 500,
            <<"Unrecognized response resolving: id=">> \o id.v)

UnrecognizedResolve(id, type) ==
  EIDRError(<<"Unrecognized response">>, 500,
            <<"Unrecognized response resolving: id=">> \o id.v
              \o <<" type=">> \o type.v)

\* ---- query

\* query with the query object compiled before the registered guard
queryStartCompilesFirst(this, exprOrObj, optionsArg, credentials, apiVersion) ==
  LET options == IF optionsArg = Undefined THEN EmptyObj ELSE optionsArg
      auth    == IF Truthy(credentials) THEN Authorization(credentials) ELSE this
      built   == IF TypeOf(exprOrObj) = "string" THEN Ret(exprOrObj.v)
                 ELSE IF TypeOf(exprOrObj) = "object" THEN buildJsonQuery(exprOrObj)
                 ELSE Ret(<<>>)
  IN
  IF auth.err # NoError THEN Started(auth.err, <<>>, "")
  ELSE IF built.err # NoError THEN Started(built.err, <<>>, "")
  ELSE IF Unregistered(auth) THEN Started(UnregisteredError, <<>>, "")
  ELSE IF TypeOf(exprOrObj) \notin {"string", "object"}
    THEN Started(EIDRError(<<"Invalid query">>, 500,
                   <<"Query must be a string or an object: ", TypeOf(exprOrObj)>>),
                 <<>>, "")
  ELSE Started(NoError,
         <<request(this, "POST",
                   <<"query/">> \o (IF Truthy(Get(options, "idOnly"))
                                      THEN <<"?type=ID">> ELSE <<>>),
                   auth, renderQueryRequest(built.expr, options), apiVersion)>>,
         "query")

\* query(exprOrObj, options, credentials, apiVersion) up to the await
queryStart(this, exprOrObj, optionsArg, credentials, apiVersion) ==
  LET options == IF optionsArg = Undefined THEN EmptyObj ELSE optionsArg
      auth    == IF Truthy(credentials) THEN Authorization(credentials) ELSE this
      built   == IF TypeOf(exprOrObj) = "string" THEN Ret(exprOrObj.v)
                 ELSE IF TypeOf(exprOrObj) = "object" THEN buildJsonQuery(exprOrObj)
                 ELSE Ret(<<>>)
  IN
  IF auth.err # NoError THEN Started(auth.err, <<>>, "")
  ELSE IF Unregistered(auth) THEN Started(UnregisteredError, <<>>, "")
  ELSE IF TypeOf(exprOrObj) \notin {"string", "object"}
    THEN Started(EIDRError(<<"Invalid query">>, 500,
                   <<"Query must be a string or an object: ", TypeOf(exprOrObj)>>),
                 <<>>, "")
  ELSE IF built.err # NoError THEN Started(built.err, <<>>, "")
  ELSE Started(NoError,
         <<request(this, "POST",
                   <<"query/">> \o (IF Truthy(Get(options, "idOnly"))
                                      THEN <<"?type=ID">> ELSE <<>>),
                   auth, renderQueryRequest(built.expr, options), apiVersion)>>,
         "query")

\* Number(x) of a response leaf
ToNumber(x) == IF x.t = "string" /\ x.v # <<>> THEN Num(x.v) ELSE Num(<<"NaN">>)

\* query after the await
queryFinish(optionsArg, http, obj) ==
  LET options == IF optionsArg = Undefined THEN EmptyObj ELSE optionsArg
      res     == Get(obj, "Response")
      status  == Get(res, "Status")
      qr      == Get(res, "QueryResults")
      data    == Get(qr, IF Truthy(Get(options, "idOnly")) THEN "ID"
                         ELSE "SimpleMetadata")
      array   == IF Truthy(data)
                   THEN (IF data.t = "array" THEN data ELSE Arr(<<data>>))
                   ELSE Arr(<<>>)
  IN
  IF requestError(http) # NoError THEN Failed(requestError(http))
  ELSE IF res.t \in {"undefined", "null"} \/ status.t \in {"undefined", "null"}
    THEN Failed(TypeError(<<"Cannot read properties of undefined">>))
  ELSE IF Get(status, "Code") # Str(<<"0">>) THEN Failed(StatusError(status))
  ELSE IF Truthy(qr)
    THEN Finished(NoError,
                  Obj([totalMatches |-> ToNumber(Get(qr, "TotalMatches")),
                       results      |-> parseJsonWithValue(array)]),
                  TRUE, array, parseJsonWithValue(array))
  ELSE Failed(EIDRError(<<"Unrecognized response">>, 500,
                        <<"Unrecognized response from registry">>))

\* ---- simpleQuery

\* (new Date(x.ReleaseDate)).getTime() on the release dates of the model
GetTime(x) ==
  LET d == Get(x, "ReleaseDate") IN
  CASE d = Str(<<"2018">>) -> 2018
    [] d = Str(<<"2019">>) -> 2019
    [] d = Str(<<"2020">>) -> 2020
    [] OTHER -> 0

\* the comparison simpleQuery sorts with: the caller's compareFunction when
\* one is given (the model's callers pass ascending release date), else the
\* default, descending release date
Compare(compareFunction, a, b) ==
  IF Truthy(compareFunction) THEN GetTime(a) - GetTime(b)
  ELSE GetTime(b) - GetTime(a)

RECURSIVE InsertSorted(_, _, _)
InsertSorted(cmp, sorted, x) ==
  IF Len(sorted) = 0 THEN <<x>>
  ELSE IF Compare(cmp, sorted[Len(sorted)], x) <= 0 THEN Append(sorted, x)
  ELSE Append(InsertSorted(cmp, SubSeq(sorted, 1, Len(sorted) - 1), x),
              sorted[Len(sorted)])

\* Array.prototype.sort (stable)
RECURSIVE SortArray(_, _)
SortArray(cmp, items) ==
  IF Len(items) = 0 THEN <<>>
  ELSE InsertSorted(cmp, SortArray(cmp, SubSeq(items, 1, Len(items) - 1)),
                    items[Len(items)])

\* simpleQuery after the await: query's own continuation with options {},
\* then results.sort(compareFunction || defaultCompareFunction)
simpleQueryFinish(compareFunction, http, obj) ==
  LET q       == queryFinish(EmptyObj, http, obj)
      results == Get(q.value, "results")
  IN
  IF q.err # NoError THEN q
  ELSE IF results.t # "array"
    THEN Finished(TypeError(<<"Cannot read properties of undefined (reading 'sort')">>),
                  Undefined, q.normCalled, q.normIn, q.normOut)
  ELSE Finished(NoError, Arr(SortArray(compareFunction, results.e)),
                q.normCalled, q.normIn, q.normOut)

\* ---- graphTraversal

graphTraversalStart(this, id, graphRequest, credentials, apiVersion) ==
  LET auth == IF Truthy(credentials) THEN Authorization(credentials) ELSE this IN
  IF auth.err # NoError THEN Started(auth.err, <<>>, "")
  ELSE IF Unregistered(auth) THEN Started(UnregisteredError, <<>>, "")
  ELSE IF ~Truthy(graphRequest) \/ KeyOf(graphRequest) \notin GraphTraversalTypes
    THEN Started(EIDRError(<<"Invalid graph traversal request">>, 500,
                           <<"A valid graph request type must be provided">>),
                 <<>>, "")
  ELSE IF ~Truthy(id)
    THEN Started(EIDRError(<<"Invalid graph traversal request">>, 500,
                           <<"EIDR ID must be provided">>), <<>>, "")
  ELSE Started(NoError,
         <<request(this, "POST", <<"object/graph">>, auth,
                   renderGraphTraversalRequest(ToStr(id), graphRequest.v),
                   apiVersion)>>,
         "graph")

graphTraversalFinish(http, obj) ==
  LET res    == Get(obj, "Response")
      status == Get(res, "Status")
      simple == Get(res, "SimpleMetadata")
  IN
  IF requestError(http) # NoError THEN Failed(requestError(http))
  ELSE IF res.t \in {"undefined", "null"} \/ status.t \in {"undefined", "null"}
    THEN Failed(TypeError(<<"Cannot read properties of undefined">>))
  ELSE IF Get(status, "Code") # Str(<<"0">>) THEN Failed(StatusError(status))
  ELSE IF Truthy(simple) THEN Normalized(simple)
  ELSE Finished(NoError, Null, FALSE, Undefined, Undefined)

\* ---- resolve

\* the view check of resolveContentID letting one more name through
ContentTypesAndBogus ==
  {"AlternateIDs", "DOIKernel", "Full", "LinkedAlternateIDs", "Provenance",
   "SelfDefined", "Simple", "Bogus"}

ContentTypes ==
  {"AlternateIDs", "DOIKernel", "Full", "LinkedAlternateIDs", "Provenance",
   "SelfDefined", "Simple"}

OtherTypes == {"Full", "DOIKernel"}

Chars10524 == <<"1", "0", ".", "5", "2", "4">>

Chars10523 == <<"1", "0", ".", "5", "2", "3">>

\* resolveContentID up to the await
resolveContentIDStart(this, id, type, credentials, apiVersion) ==
  LET auth == PerCallAuth(credentials) IN
  IF auth.err # NoError THEN Started(auth.err, <<>>, "")
  ELSE IF KeyOf(type) \notin ContentTypes
    THEN Started(EIDRError(<<"Unsupported type">>, 500,
                   <<"Unsupported resolution type: id=">> \o id.v
                     \o <<" type=">> \o ToStr(type)),
                 <<>>, "")
  ELSE Started(NoError,
         <<request(this, "GET",
                   <<"object/">> \o encodeURIComponent(id.v) \o <<"?type=">>
                     \o type.v,
                   auth, <<>>, apiVersion)>>,
         "content")

\* resolveOtherID up to the await
resolveOtherIDStart(this, id, type, credentials, apiVersion) ==
  LET auth == PerCallAuth(credentials) IN
  IF KeyOf(type) \notin OtherTypes
    THEN Started(EIDRError(<<"Unsupported type">>, 500,
                   <<"Unsupported resolution: id=">> \o id.v
                     \o <<" type=">> \o ToStr(type)),
                 <<>>, "")
  ELSE IF auth.err # NoError THEN Started(auth.err, <<>>, "")
  ELSE Started(NoError,
         <<request(this, "GET",
                   <<IF StartsWith(id.v, Chars10523 \o <<"7">>)
                       THEN "party" ELSE "service", "/resolve/">>
                     \o encodeURIComponent(id.v) \o <<"?type=">> \o type.v,
                   auth, <<>>, apiVersion)>>,
         "other")

\* resolve(id, type = 'Full', credentials, apiVersion) up to the await
resolveStart(this, id, typeArg, credentials, apiVersion) ==
  LET type == IF typeArg = Undefined THEN Str(<<"Full">>) ELSE typeArg IN
  IF ~validateId(id)
    THEN Started(EIDRError(<<"Invalid ID">>, 400,
                           <<"Invalid EIDR ID: ">> \o ToStr(id)), <<>>, "")
  ELSE IF StartsWith(id.v, Chars10524 \o <<"0">>)
    THEN resolveContentIDStart(this, id, type, credentials, apiVersion)
  ELSE IF StartsWith(id.v, Chars10523 \o <<"9">>)
          \/ StartsWith(id.v, Chars10523 \o <<"7">>)
    THEN resolveOtherIDStart(this, id, type, credentials, apiVersion)
  ELSE Started(EIDRError(<<"Unsupported type">>, 500,
                 <<"Unsupported record type: ">> \o SubSeq(id.v, 1, 7)),
               <<>>, "")

\* { ...x }: the own properties a spread copies
Spread(x) == IF x.t = "object" THEN x.f ELSE <<>>

\* const { $, ...response } = x
WithoutMarker(x) ==
  IF x.t = "object" THEN Obj([k \in (DOMAIN x.f) \ {"$"} |-> x.f[k]])
  ELSE EmptyObj

\* `${type}Metadata`, with 'kernel' for DOIKernel in the last branch
MetadataAttr(type) ==
  CASE type = "Full"        -> "FullMetadata"
    [] type = "SelfDefined" -> "SelfDefinedMetadata"
    [] type = "Simple"      -> "SimpleMetadata"
    [] type = "Provenance"  -> "ProvenanceMetadata"
    [] OTHER                -> "kernelMetadata"

\* type.slice(0, -1)
SliceLast(type) ==
  IF type = "AlternateIDs" THEN "AlternateID" ELSE "LinkedAlternateID"

\* resolveContentID after the await
resolveContentIDFinish(id, typeArg, http, res) ==
  LET type == IF typeArg = Undefined THEN Str(<<"Full">>) ELSE typeArg
      ty   == KeyOf(type)
  IN
  IF requestError(http) # NoError THEN Failed(requestError(http))
  ELSE IF ResolveStatusFails(res)
    THEN Failed(ResolveStatusError(id, Get(Get(res, "Response"), "Status")))
  ELSE IF ty \in {"Full", "SelfDefined"} THEN
    LET meta == Get(res, MetadataAttr(ty)) IN
    IF ~Truthy(meta) \/ ~Truthy(Get(meta, "BaseObjectData"))
      THEN Failed(UnrecognizedResolve(id, type))
      ELSE Normalized(
             Obj(("ExtraObjectMetadata" :> Get(meta, "ExtraObjectMetadata"))
                 @@ Spread(Get(meta, "BaseObjectData"))))
  ELSE IF ty \in {"AlternateIDs", "LinkedAlternateIDs"} THEN
    LET ids  == Get(res, ty)
        prop == SliceLast(ty)
    IN
    IF ~Truthy(ids) THEN Failed(UnrecognizedResolve(id, type))
    ELSE Normalized(
           Obj((prop :> (IF Truthy(Get(ids, prop)) THEN Get(ids, prop)
                         ELSE Arr(<<>>)))
               @@ ("ID" :> Get(ids, "ID"))))
  ELSE
    LET meta == Get(res, MetadataAttr(ty)) IN
    IF ~Truthy(meta) THEN Failed(UnrecognizedResolve(id, type))
    ELSE Normalized(WithoutMarker(meta))

\* resolveOtherID after the await
resolveOtherIDFinish(id, typeArg, http, res) ==
  LET type    == IF typeArg = Undefined THEN Str(<<"Full">>) ELSE typeArg
      which   == IF StartsWith(id.v, Chars10523 \o <<"7">>)
                   THEN "Party" ELSE "Service"
      payload == Get(res, IF type = Str(<<"Full">>) THEN which
                          ELSE "kernelMetadata")
  IN
  IF requestError(http) # NoError THEN Failed(requestError(http))
  ELSE IF ResolveStatusFails(res)
    THEN Failed(ResolveStatusError(id, Get(Get(res, "Response"), "Status")))
  ELSE IF ~Truthy(payload) THEN Failed(UnrecognizedResolve(id, type))
  ELSE Normalized(WithoutMarker(payload))

\* ------------------------------------------------------------------ inputs

\* identifiers a caller passes
ContentId == Str(<<"1", "0", ".", "5", "2", "4", "0", "/", "5", "C", "A", "7", "-", "2", "6", "2", "6", "-", "3", "E", "F", "6", "-", "2", "B", "0", "5", "-", "A", "D", "9", "C", "-", "M">>)

PartyId == Str(<<"1", "0", ".", "5", "2", "3", "7", "/", "6", "8", "A", "3", "-", "0", "1", "B", "F">>)

ServiceId == Str(<<"1", "0", ".", "5", "2", "3", "9", "/", "7", "B", "0", "E", "-", "F", "8", "4", "2">>)

\* a well-formed content identifier under a prefix that is no namespace
Id5241 == Str(<<"1", "0", ".", "5", "2", "4", "1", "/", "5", "C", "A", "7", "-", "2", "6", "2", "6", "-", "3", "E", "F", "6", "-", "2", "B", "0", "5", "-", "A", "D", "9", "C", "-", "M">>)

\* a well-formed two-group identifier under the user namespace 10.5238
Id5238 == Str(<<"1", "0", ".", "5", "2", "3", "8", "/", "6", "8", "A", "3", "-", "0", "1", "B", "F">>)

\* a content identifier with one group missing
ShortContentId == Str(<<"1", "0", ".", "5", "2", "4", "0", "/", "5", "C", "A", "7", "-", "2", "6", "2", "6", "-", "3", "E", "F", "6", "-", "2", "B", "0", "5", "-", "A", "D", "9", "C">>)

IdInputs ==
  <<ContentId, PartyId, ServiceId, Id5241, Id5238, ShortContentId, Undefined>>

TypeInputs ==
  <<Undefined, Str(<<"Full">>), Str(<<"SelfDefined">>), Str(<<"Simple">>),
    Str(<<"DOIKernel">>), Str(<<"Provenance">>), Str(<<"AlternateIDs">>),
    Str(<<"LinkedAlternateIDs">>), Str(<<"Bogus">>)>>

RegisteredString == Str(<<"E", "i", "d", "r", " ", "u1", ":", "p1", ":", "s1">>)

ColonString ==
  Str(<<"E", "i", "d", "r", " ", "u2", ":", "p2", ":", "s2", ":", "x">>)

BadString == Str(<<"B", "a", "s", "i", "c", " ", "u1">>)

PasswordCredentials ==
  Obj([userId |-> Str(<<"u3">>), partyId |-> Str(<<" ", "p3">>),
       password |-> Str(<<"pw">>)])

ShadowCredentials ==
  Obj([userId |-> Str(<<"u4">>), partyId |-> Str(<<"p4">>),
       shadow |-> Str(<<"s4">>), domain |-> Str(<<"sandbox.eidr.org">>)])

NoPasswordCredentials ==
  Obj([userId |-> Str(<<"u5">>), partyId |-> Str(<<"p5">>)])

AnonymousCredentials == Obj([domain |-> Str(<<"sandbox.eidr.org">>)])

\* the credentials argument of a call
CredentialInputs ==
  <<Undefined, RegisteredString, ColonString, BadString, PasswordCredentials,
    ShadowCredentials, NoPasswordCredentials, AnonymousCredentials>>

\* the options a connector is constructed with
ConstructorInputs == <<EmptyObj, PasswordCredentials, ShadowCredentials>>

ApiVersionInputs == <<Undefined, Str(<<"2.6.0">>)>>

OptionInputs ==
  <<Undefined, Obj([idOnly |-> Bool(TRUE)]),
    Obj([pageNumber |-> Num(<<"2">>), root |-> ContentId])>>

TitleWords == Obj([title |-> Obj([words |-> Str(<<"star", " ", "wars">>)])])

CooExact == Obj([coo |-> Obj([exact |-> Str(<<"us">>)])])

\* exprOrObj of query and simpleQuery
QueryInputs ==
  <<Str(<<"(/FullMetadata/BaseObjectData/ResourceName \"abominable\")">>),
    TitleWords,
    Obj([and |-> Arr(<<TitleWords, CooExact>>)]),
    Obj([not |-> Obj([isroot |-> Bool(TRUE)])]),
    Obj([id |-> Obj([exact |-> Str(PartyId.v \o <<" ">> \o ServiceId.v)])]),
    Obj([name |-> Str(<<"star">>)]),
    Obj([title |-> Obj([words |-> Str(<<"star">>)]), length |-> Num(<<"3">>)]),
    Obj([title |-> Obj([words |-> Str(<<" ">>)])]),
    Num(<<"7">>),
    Undefined>>

GraphRequestInputs == <<Str(<<"GetParent">>), Str(<<"Bogus">>), Undefined>>

GraphIdInputs == <<ContentId, Undefined>>

\* compareFunction of simpleQuery: none, or a caller's comparison
CompareInputs == <<Undefined, Obj([name |-> Str(<<"byReleaseDateAscending">>)])>>

\* --------------------------------------------------------------- transport

\* what fetch() answers with
HttpOutcomes ==
  <<[status |-> 200, statusText |-> "OK"],
    [status |-> 404, statusText |-> "Not Found"],
    [status |-> 503, statusText |-> "Service Unavailable"]>>

NoHttp == [status |-> 0, statusText |-> ""]

L(x) == Str(<<x>>)

\* <Response><Status><Code>..</Code><Type>..</Type><Details>..</Details>
StatusDoc(code, type, details) ==
  Obj([Response |-> Obj([Status |->
         Obj([Code |-> L(code), Type |-> L(type), Details |-> L(details)])])])

BaseData(id, name, date) ==
  Obj([ID |-> L(id), ResourceName |-> L(name), ReleaseDate |-> L(date)])

EpisodeExtra ==
  Obj([EpisodeInfo |-> Obj([SequenceInfo |->
         Obj([DistributionNumber |-> L("7")])])])

Marker == Obj([xmlns |-> L("http://www.eidr.org/schema")])

Simple(id, date) ==
  Obj([ID |-> L(id), ResourceName |-> L("Abominable"), ReleaseDate |-> L(date)])

QueryDoc(results) ==
  Obj([Response |-> Obj([Status |-> Obj([Code |-> L("0"), Type |-> L("success")]),
                         QueryResults |-> results])])

\* the parsed documents a registry answer can turn into
Docs ==
  <<StatusDoc("4", "authentication error", "Bad credentials"),
    StatusDoc("5", "access denied", "No access"),
    StatusDoc("7", "invalid request", "Bad request"),
    Obj([Response |-> Obj([Status |-> Obj([Code |-> L("3")])])]),
    Obj([FullMetadata |-> Obj(("$" :> Marker)
           @@ [BaseObjectData |-> BaseData("id1", "Abominable", "2019"),
               ExtraObjectMetadata |-> EpisodeExtra])]),
    Obj([FullMetadata |-> Obj([ExtraObjectMetadata |-> EpisodeExtra])]),
    Obj([SelfDefinedMetadata |-> Obj(
           [BaseObjectData |-> BaseData("id1", "Abominable", "2019")])]),
    Obj([SimpleMetadata |-> Obj(("$" :> Marker) @@ Simple("id1", "2019").f)]),
    Obj([ProvenanceMetadata |-> Obj(("$" :> Marker)
           @@ [Administrators |-> L("10.5237/68A3-01BF")])]),
    Obj([kernelMetadata |-> Obj(("$" :> Marker) @@ [referentDoiName |-> L("id1")])]),
    Obj([AlternateIDs |-> Obj([ID |-> L("id1"),
           AlternateID |-> Arr(<<L("tt1"), L("tt2")>>)])]),
    Obj([LinkedAlternateIDs |-> Obj([ID |-> L("id1")])]),
    Obj([Party |-> Obj(("$" :> Marker) @@ [PartyName |-> L("Disney")])]),
    Obj([Service |-> Obj(("$" :> Marker) @@ [ServiceName |-> L("Hulu")])]),
    QueryDoc(Obj([TotalMatches |-> L("2"),
                  SimpleMetadata |-> Arr(<<Simple("id1", "2018"),
                                           Simple("id2", "2020")>>)])),
    QueryDoc(Obj([TotalMatches |-> L("1"), SimpleMetadata |-> Simple("id1", "2019")])),
    QueryDoc(Obj([TotalMatches |-> L("0")])),
    QueryDoc(Obj([TotalMatches |-> L("2"), ID |-> Arr(<<L("id1"), L("id2")>>)])),
    QueryDoc(Undefined),
    Obj([Response |-> Obj([Status |-> Obj([Code |-> L("0"), Type |-> L("success")]),
                           SimpleMetadata |-> Simple("id1", "2019")])]),
    Obj([Response |-> Obj([Status |-> Obj([Code |-> L("0"), Type |-> L("success")]),
                           SimpleMetadata |-> L("none")])]),
    EmptyObj>>

\* ------------------------------------------------------------ state machine

VARIABLES
  authorization,  \* this.authorization, set by the constructor
  call,           \* the calls of the caller: arguments, position, outcome
  probe           \* a direct call of one of the exported pure functions

vars == <<authorization, call, probe>>

\* the calls a caller can have open
Slots == {1, 2}

NoArgs ==
  [id |-> Undefined, type |-> Undefined, exprOrObj |-> Undefined,
   options |-> Undefined, credentials |-> Undefined, apiVersion |-> Undefined,
   compareFunction |-> Undefined, graphRequest |-> Undefined]

Idle ==
  [pc |-> "idle", op |-> "none", route |-> "", args |-> NoArgs, sent |-> <<>>,
   http |-> NoHttp, doc |-> Undefined, err |-> NoError, value |-> Undefined,
   normCalled |-> FALSE, normIn |-> Undefined, normOut |-> Undefined]

AllIdle == \A c \in Slots : call[c].pc = "idle"

\* a call that ran its synchronous part: it has thrown, or it waits for fetch
Begin(op, args, started) ==
  [Idle EXCEPT !.pc = IF started.err # NoError THEN "done" ELSE "awaiting",
               !.op = op, !.route = started.route, !.args = args,
               !.sent = started.sent, !.err = started.err]

\* a waiting call that got its answer and ran to its end
End(c, http, doc, finished) ==
  [call[c] EXCEPT !.pc = "done", !.http = http,
                  !.doc = IF http.status = 200 THEN doc ELSE Undefined,
                  !.err = finished.err, !.value = finished.value,
                  !.normCalled = finished.normCalled, !.normIn = finished.normIn,
                  !.normOut = finished.normOut]

Init ==
  /\ \E i \in 1..Len(ConstructorInputs) :
       authorization = Authorization(ConstructorInputs[i])
  /\ call = [c \in Slots |-> Idle]
  /\ probe = [fn |-> "none"]

Resolve(c, id, type, credentials, apiVersion) ==
  /\ call[c].pc = "idle"
  /\ call' = [call EXCEPT ![c] =
       Begin("resolve",
             [NoArgs EXCEPT !.id = id, !.type = type,
                            !.credentials = credentials,
                            !.apiVersion = apiVersion],
             resolveStart(authorization, id, type, credentials, apiVersion))]
  /\ UNCHANGED <<authorization, probe>>

ResolveContentIDResume(c, http, doc) ==
  /\ call[c].pc = "awaiting" /\ call[c].route = "content"
  /\ call' = [call EXCEPT ![c] =
       End(c, http, doc,
           resolveContentIDFinish(call[c].args.id, call[c].args.type, http, doc))]
  /\ UNCHANGED <<authorization, probe>>

ResolveOtherIDResume(c, http, doc) ==
  /\ call[c].pc = "awaiting" /\ call[c].route = "other"
  /\ call' = [call EXCEPT ![c] =
       End(c, http, doc,
           resolveOtherIDFinish(call[c].args.id, call[c].args.type, http, doc))]
  /\ UNCHANGED <<authorization, probe>>

Query(c, exprOrObj, options, credentials, apiVersion) ==
  /\ call[c].pc = "idle"
  /\ call' = [call EXCEPT ![c] =
       Begin("query",
             [NoArgs EXCEPT !.exprOrObj = exprOrObj, !.options = options,
                            !.credentials = credentials,
                            !.apiVersion = apiVersion],
             queryStart(authorization, exprOrObj, options, credentials,
                        apiVersion))]
  /\ UNCHANGED <<authorization, probe>>

QueryResume(c, http, doc) ==
  /\ call[c].pc = "awaiting" /\ call[c].op = "query"
  /\ call' = [call EXCEPT ![c] =
       End(c, http, doc, queryFinish(call[c].args.options, http, doc))]
  /\ UNCHANGED <<authorization, probe>>

\* simpleQuery calls this.query(exprOrObj, {}, credentials)
SimpleQuery(c, exprOrObj, compareFunction, credentials) ==
  /\ call[c].pc = "idle"
  /\ call' = [call EXCEPT ![c] =
       Begin("simpleQuery",
             [NoArgs EXCEPT !.exprOrObj = exprOrObj,
                            !.compareFunction = compareFunction,
                            !.credentials = credentials],
             queryStart(authorization, exprOrObj, EmptyObj, credentials,
                        Undefined))]
  /\ UNCHANGED <<authorization, probe>>

SimpleQueryResume(c, http, doc) ==
  /\ call[c].pc = "awaiting" /\ call[c].op = "simpleQuery"
  /\ call' = [call EXCEPT ![c] =
       End(c, http, doc,
           simpleQueryFinish(call[c].args.compareFunction, http, doc))]
  /\ UNCHANGED <<authorization, probe>>

GraphTraversal(c, id, graphRequest, credentials, apiVersion) ==
  /\ call[c].pc = "idle"
  /\ call' = [call EXCEPT ![c] =
       Begin("graphTraversal",
             [NoArgs EXCEPT !.id = id, !.graphRequest = graphRequest,
                            !.credentials = credentials,
                            !.apiVersion = apiVersion],
             graphTraversalStart(authorization, id, graphRequest, credentials,
                                 apiVersion))]
  /\ UNCHANGED <<authorization, probe>>

GraphTraversalResume(c, http, doc) ==
  /\ call[c].pc = "awaiting" /\ call[c].op = "graphTraversal"
  /\ call' = [call EXCEPT ![c] =
       End(c, http, doc, graphTraversalFinish(http, doc))]
  /\ UNCHANGED <<authorization, probe>>

\* the caller has taken the outcome of a finished call
Return(c) ==
  /\ call[c].pc = "done"
  /\ call' = [call EXCEPT ![c] = Idle]
  /\ UNCHANGED <<authorization, probe>>

\* a caller that waits for each call before it makes the next
Next ==
  \/ /\ AllIdle
     /\ \E c \in Slots, i \in 1..Len(IdInputs), t \in 1..Len(TypeInputs),
           k \in 1..Len(CredentialInputs), v \in 1..Len(ApiVersionInputs) :
          Resolve(c, IdInputs[i], TypeInputs[t], CredentialInputs[k],
                  ApiVersionInputs[v])
  \/ \E c \in Slots, h \in 1..Len(HttpOutcomes), d \in 1..Len(Docs) :
       ResolveContentIDResume(c, HttpOutcomes[h], Docs[d])
  \/ \E c \in Slots, h \in 1..Len(HttpOutcomes), d \in 1..Len(Docs) :
       ResolveOtherIDResume(c, HttpOutcomes[h], Docs[d])
  \/ /\ AllIdle
     /\ \E c \in Slots, q \in 1..Len(QueryInputs), o \in 1..Len(OptionInputs),
           k \in 1..Len(CredentialInputs), v \in 1..Len(ApiVersionInputs) :
          Query(c, QueryInputs[q], OptionInputs[o], CredentialInputs[k],
                ApiVersionInputs[v])
  \/ \E c \in Slots, h \in 1..Len(HttpOutcomes), d \in 1..Len(Docs) :
       QueryResume(c, HttpOutcomes[h], Docs[d])
  \/ /\ AllIdle
     /\ \E c \in Slots, q \in 1..Len(QueryInputs), f \in 1..Len(CompareInputs),
           k \in 1..Len(CredentialInputs) :
          SimpleQuery(c, QueryInputs[q], CompareInputs[f], CredentialInputs[k])
  \/ \E c \in Slots, h \in 1..Len(HttpOutcomes), d \in 1..Len(Docs) :
       SimpleQueryResume(c, HttpOutcomes[h], Docs[d])
  \/ /\ AllIdle
     /\ \E c \in Slots, i \in 1..Len(GraphIdInputs),
           g \in 1..Len(GraphRequestInputs), k \in 1..Len(CredentialInputs),
           v \in 1..Len(ApiVersionInputs) :
          GraphTraversal(c, GraphIdInputs[i], GraphRequestInputs[g],
                         CredentialInputs[k], ApiVersionInputs[v])
  \/ \E c \in Slots, h \in 1..Len(HttpOutcomes), d \in 1..Len(Docs) :
       GraphTraversalResume(c, HttpOutcomes[h], Docs[d])
  \/ \E c \in Slots : Return(c)

Spec == Init /\ [][Next]_vars

\* a caller that does not wait: a call is made while another one is still at
\* its await, so the handlers interleave at their awaits; the arguments and
\* answers are a sample of those of Next
ConcurrentNext ==
  LET credentials == {Undefined, RegisteredString, ShadowCredentials,
                      AnonymousCredentials, BadString}
      answers     == {HttpOutcomes[1], HttpOutcomes[2]}
      documents   == {Docs[1], Docs[5], Docs[13], Docs[15], Docs[20]}
  IN
  \/ \E c \in Slots, id \in {ContentId, PartyId}, k \in credentials :
       Resolve(c, id, Undefined, k, Undefined)
  \/ \E c \in Slots, h \in answers, d \in documents :
       ResolveContentIDResume(c, h, d)
  \/ \E c \in Slots, h \in answers, d \in documents :
       ResolveOtherIDResume(c, h, d)
  \/ \E c \in Slots, k \in credentials :
       Query(c, TitleWords, Undefined, k, Undefined)
  \/ \E c \in Slots, h \in answers, d \in documents : QueryResume(c, h, d)
  \/ \E c \in Slots, k \in credentials :
       SimpleQuery(c, TitleWords, Undefined, k)
  \/ \E c \in Slots, h \in answers, d \in documents :
       SimpleQueryResume(c, h, d)
  \/ \E c \in Slots, k \in credentials :
       GraphTraversal(c, ContentId, Str(<<"GetParent">>), k, Undefined)
  \/ \E c \in Slots, h \in answers, d \in documents :
       GraphTraversalResume(c, h, d)
  \/ \E c \in Slots : Return(c)

ConcurrentSpec == Init /\ [][ConcurrentNext]_vars

\* ------------------------------- direct calls of the exported pure functions

\* how many pieces a caller puts after the prefix of an identifier
MaxPieces == 4

\* how many identifiers a caller lists in an id predicate
MaxIds == 2

\* how many children a caller gives an and / or
MaxChildren == 2

\* how many expressions nary is handed
MaxExprs == 3

\* how many branches the tree handed to the normalizer has
MaxBranches == 2

\* how many times a caller normalizes in a row
MaxRuns == 2

\* a caller has one of validateId, buildJsonQuery (with nary, its joiner) and
\* parseJsonWithValue (with parseJsonWithOneRule, its step) in hand, with the
\* arguments it is about to pass
DirectInit ==
  LET \* the sequences of up to n elements of the list pool
      SeqsUpTo(pool, n) ==
        {[i \in DOMAIN f |-> pool[f[i]]] :
           f \in UNION {[1..m -> 1..Len(pool)] : m \in 0..n}}
      \* ---- validateId: a prefix and up to MaxPieces pieces, and non-strings
      IdPrefixes ==
        << <<"1", "0", ".", "5", "2", "4", "0", "/">>,
           <<"1", "0", ".", "5", "2", "3", "7", "/">>,
           <<"1", "0", ".", "5", "2", "3", "9", "/">>,
           <<"1", "0", ".", "5", "2", "3", "8", "/">>,
           <<"1", "0", ".", "5", "2", "4", "1", "/">> >>
      \* two groups, one group, a closing group, a check character, a
      \* lowercase group and a group with a letter that is no hex digit
      IdPieces ==
        << <<"5", "C", "A", "7", "-", "2", "6", "2", "6", "-">>,
           <<"A", "D", "9", "C", "-">>,
           <<"0", "1", "B", "F">>,
           <<"M">>,
           <<"5", "c", "a", "7", "-">>,
           <<"5", "C", "G", "7">> >>
      ValidateInputs ==
        {Str(IdPrefixes[p] \o Flat(pieces)) :
           p \in 1..Len(IdPrefixes), pieces \in SeqsUpTo(IdPieces, MaxPieces)}
        \cup {IdInputs[i] : i \in 1..Len(IdInputs)}
        \cup {Null, Num(<<"7">>), Bool(TRUE), EmptyObj, Arr(<<ContentId>>)}
      \* ---- buildJsonQuery: predicates, and and / or / not over them
      IdLeaves ==
        {Obj([id |-> Obj(mode :> Str(Join(ids, <<" ">>)))]) :
           mode \in {"words", "exact"},
           ids \in SeqsUpTo(<<ContentId.v, PartyId.v, Id5241.v>>, MaxIds)}
      QueryLeaves ==
        <<TitleWords,
          CooExact,
          Obj([anytitle |-> Obj([contains |-> Str(<<"star", " ", " ", "wars">>)])]),
          Obj([id |-> Obj([words |-> Str(PartyId.v \o <<" ">> \o ServiceId.v)])]),
          Obj([date |-> Obj([before |-> Str(<<"2020">>)])]),
          Obj([length |-> Obj([minlength |-> Str(<<"90">>)])]),
          Obj([exists |-> Str(<<"date">>)]),
          Obj([isroot |-> Bool(TRUE)]),
          Obj([parent |-> ContentId]),
          Obj([name |-> Str(<<"star">>)]),
          Obj([title |-> Obj([words |-> Str(<<" ">>)])]),
          Obj([or |-> Arr(<<>>)]),
          Obj([title |-> Obj([exact |-> Str(<<"Abominable">>)])]),
          Obj([anytitle |-> Obj([words |-> Str(<<" ", "star", " ", "wars">>)])]),
          Obj([actor |-> Obj([exact |-> Str(<<"star", " ", " ", "wars", " ">>)])]),
          Obj([title |-> Obj([words |-> Str(<<"star", "\t", "wars">>)])]),
          Obj([title |-> Obj([contains |-> Str(<<"\t">>)])]),
          Obj([title |-> Obj([like |-> Str(<<"star">>)])]),
          Obj([exists |-> Str(<<"length">>)]),
          Obj([exists |-> Str(<<"title">>)]),
          Obj([exists |-> Str(<<"aoid">>)]),
          Obj([exists |-> Str(<<"anytitle">>)]),
          Obj([exists |-> Str(<<"actor">>)]),
          Obj([exists |-> Str(<<"director">>)]),
          Obj([exists |-> Str(<<"name">>)]),
          Obj([exists |-> Str(<<"constructor">>)]),
          Obj([exists |-> Str(<<"toString">>)]),
          Obj([constructor |-> Obj([words |-> Str(<<"star">>)])]),
          Obj([exists |-> Num(<<"7">>)])>>
      QueryObjects ==
        {QueryLeaves[i] : i \in 1..Len(QueryLeaves)}
        \cup IdLeaves
        \cup {Obj(op :> Arr(children)) :
                op \in {"and", "or"},
                children \in SeqsUpTo(QueryLeaves, MaxChildren)}
        \cup {Obj([not |-> q]) :
                q \in {QueryLeaves[i] : i \in 1..Len(QueryLeaves)} \cup IdLeaves}
        \cup {QueryInputs[i] : i \in {j \in 1..Len(QueryInputs) :
                                        TypeOf(QueryInputs[j]) = "object"}}
      \* ---- nary: plain, padded, compound, blank and empty expressions
      ExprPool ==
        << <<"a">>,
           <<" ", "b", " ">>,
           <<"(", "x", " ", "OR", " ", "y", ")">>,
           <<" ">>,
           <<>> >>
      \* ---- parseJsonWithValue: trees of up to MaxBranches branches; a
      \* branch is a leaf at a path, "[]" standing for a one-element array
      BranchPaths ==
        << <<"ExtraObjectMetadata", "EpisodeInfo", "SequenceInfo", "DistributionNumber">>,
           <<"ExtraObjectMetadata", "EpisodeInfo", "[]", "SequenceInfo", "DistributionNumber">>,
           <<"ExtraObjectMetadata", "EpisodeInfo", "SequenceInfo", "HouseSequence">>,
           <<"A", "SequenceInfo", "DistributionNumber">>,
           <<"B", "SequenceInfo", "DistributionNumber">>,
           <<"A", "X", "SequenceInfo", "DistributionNumber">>,
           <<"SequenceInfo", "DistributionNumber">> >>
      \* scalars, an already wrapped value, an array, null
      LeafInputs ==
        <<Str(<<"7">>), Num(<<"0">>), Bool(FALSE), Str(<<>>),
          Wrapped(Str(<<"9">>)),
          Arr(<<Str(<<"1">>), Wrapped(Str(<<"2">>))>>), Null>>
      RECURSIVE Nest(_, _)
      Nest(path, leaf) ==
        IF path = <<>> THEN leaf
        ELSE IF Head(path) = "[]" THEN Arr(<<Nest(Tail(path), leaf)>>)
        ELSE Obj(Head(path) :> Nest(Tail(path), leaf))
      RECURSIVE Merge(_, _)
      Merge(a, b) ==
        IF a.t = "object" /\ b.t = "object" THEN
          Obj([k \in (DOMAIN a.f) \cup (DOMAIN b.f) |->
                 IF k \in DOMAIN a.f /\ k \in DOMAIN b.f
                   THEN Merge(a.f[k], b.f[k])
                 ELSE IF k \in DOMAIN a.f THEN a.f[k] ELSE b.f[k]])
        ELSE IF a.t = "array" /\ b.t = "array" THEN Arr(a.e \o b.e)
        ELSE b
      RECURSIVE Trees(_)
      Trees(n) ==
        IF n = 0 THEN {EmptyObj}
        ELSE Trees(n - 1)
             \cup {Merge(Nest(BranchPaths[p], LeafInputs[l]), t) :
                     p \in 1..Len(BranchPaths), l \in 1..Len(LeafInputs),
                     t \in Trees(n - 1)}
      \* the rule in force, the wildcard rule of the comment, and a rule with
      \* the wildcard in the middle
      RuleInputs ==
        <<jsonFormatWithValueRules[1],
          <<"*", "SequenceInfo", "DistributionNumber">>,
          <<"A", "*", "DistributionNumber">> >>
      \* json is the tree the caller holds (rewritten in place), input the
      \* tree as handed in, prev the tree before the latest run, ret the value
      \* the latest run returned, first the value the first run returned
      NormalizeProbe(fn, fields, json) ==
        [fn |-> fn, pc |-> "called", fields |-> fields, input |-> json,
         json |-> json, arg |-> json, prev |-> json, ret |-> Undefined,
         first |-> Undefined, runs |-> 0, again |-> "no"]
  IN
  /\ authorization = Authorization(EmptyObj)
  /\ call = [c \in Slots |-> Idle]
  /\ \/ \E id \in ValidateInputs :
          probe = [fn |-> "validateId", pc |-> "called", arg |-> id,
                   out |-> Undefined]
     \/ \E obj \in QueryObjects :
          probe = [fn |-> "buildJsonQuery", pc |-> "called", arg |-> obj,
                   out |-> Ret(<<>>)]
     \/ \E op \in {"and", "or"}, expressions \in SeqsUpTo(ExprPool, MaxExprs) :
          probe = [fn |-> "nary", pc |-> "called",
                   arg |-> [op |-> op, expressions |-> expressions],
                   out |-> Ret(<<>>)]
     \/ \E json \in Trees(MaxBranches)
                    \cup {Undefined, Null, Str(<<"7">>), Num(<<"0">>),
                          Arr(<<EpisodeExtra, Str(<<"7">>)>>)} :
          probe = NormalizeProbe("parseJsonWithValue", <<>>, json)
     \/ \E json \in Trees(MaxBranches), r \in 1..Len(RuleInputs) :
          probe = NormalizeProbe("parseJsonWithOneRule", RuleInputs[r], json)

\* validateId(id) runs and returns
ValidateId ==
  /\ probe.fn = "validateId" /\ probe.pc = "called"
  /\ probe' = [probe EXCEPT !.pc = "returned",
                            !.out = Bool(validateId(probe.arg))]
  /\ UNCHANGED <<authorization, call>>

\* buildJsonQuery(obj) runs to its return or its throw
BuildJsonQuery ==
  /\ probe.fn = "buildJsonQuery" /\ probe.pc = "called"
  /\ probe' = [probe EXCEPT !.pc = "returned",
                            !.out = buildJsonQuery(probe.arg)]
  /\ UNCHANGED <<authorization, call>>

\* nary(op, expressions) runs to its return or its throw
Nary ==
  /\ probe.fn = "nary" /\ probe.pc = "called"
  /\ probe' = [probe EXCEPT !.pc = "returned",
                            !.out = nary(probe.arg.op, probe.arg.expressions)]
  /\ UNCHANGED <<authorization, call>>

\* parseJsonWithValue(json)
ParseJsonWithValue ==
  /\ probe.fn = "parseJsonWithValue" /\ probe.pc = "called"
  /\ probe' = [probe EXCEPT !.pc = "returned", !.runs = 1,
                            !.json = parseJsonRewritten(probe.json),
                            !.ret = parseJsonWithValue(probe.json),
                            !.first = parseJsonWithValue(probe.json)]
  /\ UNCHANGED <<authorization, call>>

\* parseJsonWithValue once more: on the tree the caller holds, or, as in
\* parseJsonWithValue(parseJsonWithValue(json)), on the value the run before
\* returned; the caller's tree is rewritten again only when it is the
\* argument
ParseJsonWithValueAgain(ofResult) ==
  LET arg == IF ofResult THEN probe.ret ELSE probe.json IN
  /\ probe.fn = "parseJsonWithValue" /\ probe.pc = "returned"
  /\ probe.runs < MaxRuns
  /\ probe.again \in {"no", IF ofResult THEN "result" ELSE "tree"}
  /\ probe' = [probe EXCEPT !.runs = @ + 1,
                            !.again = IF ofResult THEN "result" ELSE "tree",
                            !.arg = arg, !.prev = probe.json,
                            !.json = IF arg = probe.json
                                       THEN parseJsonRewritten(probe.json)
                                       ELSE probe.json,
                            !.ret = parseJsonWithValue(arg)]
  /\ UNCHANGED <<authorization, call>>

\* parseJsonWithOneRule(json, fields), as the forEach over the rules calls it
ParseJsonWithOneRule ==
  /\ probe.fn = "parseJsonWithOneRule" /\ probe.pc = "called"
  /\ probe' = [probe EXCEPT !.pc = "returned", !.runs = 1,
                            !.json = parseJsonWithOneRule(probe.json, probe.fields)]
  /\ UNCHANGED <<authorization, call>>

DirectNext ==
  \/ ValidateId
  \/ BuildJsonQuery
  \/ Nary
  \/ ParseJsonWithValue
  \/ \E ofResult \in BOOLEAN : ParseJsonWithValueAgain(ofResult)
  \/ ParseJsonWithOneRule

DirectSpec == DirectInit /\ [][DirectNext]_vars

\* ------------------------------------------------------------------ claims

\* the view a resolve call asks for: type = 'Full' when none is passed
ViewOf(k) == IF k.args.type = Undefined THEN "Full" ELSE KeyOf(k.args.type)

SevenViews ==
  {"AlternateIDs", "DOIKernel", "Full", "LinkedAlternateIDs", "Provenance",
   "SelfDefined", "Simple"}

TwoViews == {"Full", "DOIKernel"}

IsContent(id) == id.t = "string" /\ StartsWith(id.v, <<"1", "0", ".", "5", "2", "4", "0">>)

IsOther(id) ==
  /\ id.t = "string"
  /\ \/ StartsWith(id.v, <<"1", "0", ".", "5", "2", "3", "7">>)
     \/ StartsWith(id.v, <<"1", "0", ".", "5", "2", "3", "9">>)

\* the (namespace, view) pair of a resolve call is one resolve supports
SupportedPair(k) ==
  \/ IsContent(k.args.id) /\ ViewOf(k) \in SevenViews
  \/ IsOther(k.args.id) /\ ViewOf(k) \in TwoViews

\* the Status subtree of the answer a call got
StatusOf(k) == Get(Get(k.doc, "Response"), "Status")

\* the answer came with a registry status code, and it is not '0'
RegistryRefused(k) ==
  /\ k.pc = "done" /\ k.http.status = 200
  /\ Get(StatusOf(k), "Code").t = "string"
  /\ Get(StatusOf(k), "Code") # Str(<<"0">>)

\* the answer passes the status check of resolve
PassesStatus(k) ==
  \/ Get(StatusOf(k), "Code") = Undefined
  \/ Get(StatusOf(k), "Code") = Str(<<"0">>)

\* the per-call credentials are given and the constructor rejects them
BadCredentials(k) ==
  Truthy(k.args.credentials) /\ Authorization(k.args.credentials).err # NoError

\* the credential set in force for a call is there and is not registered
EffectiveUnregistered(k) ==
  IF Truthy(k.args.credentials)
    THEN /\ Authorization(k.args.credentials).err = NoError
         /\ ~Authorization(k.args.credentials).registered
    ELSE ~authorization.registered

\* a query whose answer has status '0' and a QueryResults attribute
QuerySucceeds(k) ==
  /\ k.pc = "done" /\ k.http.status = 200
  /\ Get(StatusOf(k), "Code") = Str(<<"0">>)
  /\ Truthy(Get(Get(k.doc, "Response"), "QueryResults"))

\* the list a query selects from its answer
SelectedList(k) ==
  Get(Get(Get(k.doc, "Response"), "QueryResults"),
      IF Truthy(Get(k.args.options, "idOnly")) THEN "ID" ELSE "SimpleMetadata")

\* C1: resolve of a content identifier with view Full or SelfDefined, on an
\* answer that passes the status check and has <view>Metadata.BaseObjectData,
\* returns a record with every field of BaseObjectData and the normalized
\* ExtraObjectMetadata subtree, never undefined.
C1_ResolveReturnsMergedRecord ==
  \A c \in Slots :
    LET k    == call[c]
        meta == Get(k.doc, MetadataAttr(ViewOf(k)))
        base == Get(meta, "BaseObjectData")
    IN
    (/\ k.pc = "done" /\ k.op = "resolve" /\ k.http.status = 200
     /\ IsContent(k.args.id) /\ ViewOf(k) \in {"Full", "SelfDefined"}
     /\ PassesStatus(k) /\ base.t = "object")
    => /\ k.err = NoError
       /\ k.value.t = "object"
       /\ \A f \in (DOMAIN base.f) \ {"ExtraObjectMetadata"} :
            Get(k.value, f) = base.f[f]
       /\ Get(k.value, "ExtraObjectMetadata")
            = Get(parseJsonRewritten(
                    Obj([ExtraObjectMetadata |-> Get(meta, "ExtraObjectMetadata")])),
                  "ExtraObjectMetadata")

\* C2: parseJsonWithValue returns a tree for every input: the input itself
\* when it is not an object, the rewritten tree when it is an object or an
\* array.
C2_NormalizeReturnsTree ==
  \A c \in Slots :
    LET k == call[c] IN
    k.normCalled =>
      IF TypeOf(k.normIn) # "object" \/ k.normIn.t = "null"
        THEN k.normOut = k.normIn
        ELSE /\ k.normOut.t \in {"object", "array"}
             /\ k.normOut = parseJsonRewritten(k.normIn)

\* C3: query, on an answer with status '0' and a QueryResults attribute,
\* returns { totalMatches, results } with results always a sequence: empty
\* when the selected list is absent, one element when it is a single object,
\* the list itself when it is a sequence; totalMatches is the number in
\* QueryResults.TotalMatches.
C3_QueryResultsIsSequence ==
  \A c \in Slots :
    LET k    == call[c]
        data == SelectedList(k)
        res  == Get(k.value, "results")
    IN
    (k.op = "query" /\ QuerySucceeds(k))
    => /\ k.err = NoError
       /\ Get(k.value, "totalMatches")
            = Num(Get(Get(Get(k.doc, "Response"), "QueryResults"),
                      "TotalMatches").v)
       /\ res.t = "array"
       /\ (data = Undefined => res.e = <<>>)
       /\ (data.t = "object" => res.e = <<data>>)
       /\ (data.t = "array" => res.e = data.e)

\* the list is in the order the comparison in force asks for
SortedFor(compareFunction, items) ==
  \A i \in 1..(Len(items) - 1) :
    IF Truthy(compareFunction)
      THEN GetTime(items[i]) <= GetTime(items[i + 1])
      ELSE GetTime(items[i]) >= GetTime(items[i + 1])

\* C4: simpleQuery, whenever the underlying query succeeds, returns the
\* results array itself, in descending ReleaseDate order without a
\* compareFunction and in the compareFunction's order with one.
C4_SimpleQueryReturnsSortedResults ==
  \A c \in Slots :
    LET k == call[c] IN
    (k.op = "simpleQuery" /\ QuerySucceeds(k))
    => /\ k.err = NoError
       /\ k.value.t = "array"
       /\ SortedFor(k.args.compareFunction, k.value.e)

\* C5: on every operation a registry status code '4' or '5' fails with
\* status 403 and any other code but '0' fails with status 500.
C5_AccessDeniedIs403 ==
  \A c \in Slots :
    LET k == call[c] IN
    RegistryRefused(k)
    => /\ k.err.class = "EIDRError"
       /\ k.err.status
            = IF Get(StatusOf(k), "Code") \in {Str(<<"4">>), Str(<<"5">>)}
                THEN 403 ELSE 500

\* the error message carries the registry code
CarriesCode(k) ==
  k.err.message = <<"EIDRConnector: ", "Error ">>
                    \o Get(StatusOf(k), "Code").v \o <<" ">>
                    \o ToStr(Get(StatusOf(k), "Type"))

C7_QueryNeedsRegistration ==
  \A c \in Slots :
    LET k == call[c] IN
    /\ (k.op \in {"query", "simpleQuery"} /\ EffectiveUnregistered(k))
       => /\ k.pc = "done" /\ k.sent = <<>>
          /\ k.err.class = "EIDRError" /\ k.err.status = 401
          /\ k.err.message = <<"EIDRConnector: ", "Unregistered">>
    /\ (k.op = "resolve" /\ EffectiveUnregistered(k)
        /\ validateId(k.args.id) /\ SupportedPair(k))
       => /\ Len(k.sent) = 1 /\ k.sent[1].Authorization = <<>>
          /\ k.err.status # 401

C7_Witness ==
  \E c \in Slots :
    /\ call[c].op = "query" /\ EffectiveUnregistered(call[c])
    /\ call[c].args.credentials = AnonymousCredentials
    /\ call[c].args.exprOrObj = TitleWords
    /\ call[c].pc = "done" /\ call[c].err.status = 401

\* a resolve or query call fails one of its local checks
LocalFailure(k) ==
  \/ /\ k.op = "resolve"
     /\ \/ ~validateId(k.args.id)
        \/ ~SupportedPair(k)
        \/ BadCredentials(k)
  \/ /\ k.op \in {"query", "simpleQuery"}
     /\ \/ BadCredentials(k)
        \/ TypeOf(k.args.exprOrObj) \notin {"string", "object"}
        \/ /\ TypeOf(k.args.exprOrObj) = "object"
           /\ buildJsonQuery(k.args.exprOrObj).err # NoError

\* C8: in resolve and query no request is issued after a local validation
\* failure: an invalid identifier, an unsupported (namespace, view) pair,
\* invalid per-call credentials, a query that is neither string nor object,
\* or a query object the compiler rejects ends the call with no request sent.
C8_NoRequestAfterLocalFailure ==
  \A c \in Slots :
    LET k == call[c] IN
    LocalFailure(k) => k.pc = "done" /\ k.err # NoError /\ k.sent = <<>>

C8_Witness ==
  \E c \in Slots :
    /\ call[c].op = "resolve" /\ call[c].pc = "done"
    /\ call[c].args.id = ContentId /\ ViewOf(call[c]) = "Bogus"
    /\ ~BadCredentials(call[c])
    /\ call[c].sent = <<>>

\* the identifier is a string under none of the three namespaces
UnrecognizedPrefix(id) ==
  id.t = "string" /\ Len(id.v) >= 7 /\ ~IsContent(id) /\ ~IsOther(id)

C10_ExactlyTheSupportedViews ==
  \A c \in Slots :
    LET k == call[c] IN
    (k.op = "resolve" /\ validateId(k.args.id))
    => IF SupportedPair(k)
         THEN k.err.message # <<"EIDRConnector: ", "Unsupported type">>
         ELSE /\ k.pc = "done"
              /\ k.err.class = "EIDRError" /\ k.err.status = 500
              /\ k.err.message = <<"EIDRConnector: ", "Unsupported type">>
              /\ SubSeq(k.err.details, Len(k.err.details) - 1,
                        Len(k.err.details))
                   = <<" type=">> \o ToStr(k.args.type)

\* the attribute of the answer that holds the payload of the view asked for
RequiredAttr(k) ==
  IF IsContent(k.args.id) THEN
    CASE ViewOf(k) = "Full"               -> "FullMetadata"
      [] ViewOf(k) = "SelfDefined"        -> "SelfDefinedMetadata"
      [] ViewOf(k) = "Simple"             -> "SimpleMetadata"
      [] ViewOf(k) = "Provenance"         -> "ProvenanceMetadata"
      [] ViewOf(k) = "DOIKernel"          -> "kernelMetadata"
      [] OTHER                            -> ViewOf(k)
  ELSE IF ViewOf(k) = "DOIKernel" THEN "kernelMetadata"
  ELSE IF StartsWith(k.args.id.v, <<"1", "0", ".", "5", "2", "3", "7">>)
    THEN "Party" ELSE "Service"

\* the answer lacks the attribute of the view, or, for Full and SelfDefined
\* of a content identifier, the BaseObjectData inside it
LacksRequired(k) ==
  \/ Get(k.doc, RequiredAttr(k)) = Undefined
  \/ /\ IsContent(k.args.id) /\ ViewOf(k) \in {"Full", "SelfDefined"}
     /\ Get(Get(k.doc, RequiredAttr(k)), "BaseObjectData") = Undefined

\* the answer came with no registry status, or with status code '0'
StatusAbsentOrZero(k) ==
  \/ StatusOf(k) = Undefined
  \/ Get(StatusOf(k), "Code") = Str(<<"0">>)

\* a resolve call of a valid identifier and a supported view that got an
\* HTTP 200 answer
ResolveAnswered(k) ==
  /\ k.op = "resolve" /\ k.pc = "done" /\ k.http.status = 200
  /\ validateId(k.args.id) /\ SupportedPair(k)

\* C11: resolve of a valid identifier and supported view, on an answer that
\* passes the status check but lacks the attribute the view requires, fails
\* with the 'Unrecognized response' error whose detail names the identifier
\* and the view, and returns nothing.
C11_MissingAttributeIsUnrecognized ==
  \A c \in Slots :
    LET k == call[c] IN
    (ResolveAnswered(k) /\ StatusAbsentOrZero(k) /\ LacksRequired(k))
    => /\ k.err.class = "EIDRError"
       /\ k.err.message = <<"EIDRConnector: ", "Unrecognized response">>
       /\ k.err.details = <<"Unrecognized response resolving: id=">>
                            \o k.args.id.v \o <<" type=", ViewOf(k)>>
       /\ k.value = Undefined /\ ~k.normCalled

C11_Witness ==
  \E c \in Slots :
    /\ ResolveAnswered(call[c]) /\ StatusAbsentOrZero(call[c])
    /\ call[c].args.id = ContentId /\ ViewOf(call[c]) = "Full"
    /\ Get(call[c].doc, "FullMetadata").t = "object"
    /\ Get(Get(call[c].doc, "FullMetadata"), "BaseObjectData") = Undefined
    /\ call[c].err.message = <<"EIDRConnector: ", "Unrecognized response">>

\* C12: when fetch answers with a status other than 200, every operation
\* fails with the API error that carries that status; the error is the same
\* whatever the body of the answer is, and neither the status check nor the
\* shape extraction nor the normalization is started.
C12_HttpStatusVerbatim ==
  \A c \in Slots :
    LET k == call[c] IN
    (k.pc = "done" /\ k.http.status \notin {0, 200})
    => /\ k.err.class = "EIDRError"
       /\ k.err.status = k.http.status
       /\ k.err.message = <<"EIDRConnector: ", "API error">>
       /\ k.err.details = <<"HTTP error accessing EIDR registry API: ",
                            ToString(k.http.status), " ", k.http.statusText>>
       /\ k.value = Undefined /\ ~k.normCalled

C12_Witness ==
  \E c \in Slots :
    /\ call[c].pc = "done" /\ call[c].op = "graphTraversal"
    /\ call[c].http.status = 503 /\ call[c].err.status = 503

\* C13: every failure of query or resolve carries a machine status code and
\* a detail string; a query object the compiler rejects fails with such an
\* error too.
C13_EveryFailureIsStructured ==
  \A c \in Slots :
    LET k == call[c] IN
    (k.op \in {"query", "resolve"} /\ k.pc = "done" /\ k.err # NoError)
    => /\ k.err.class = "EIDRError"
       /\ k.err.status # 0
       /\ k.err.details # <<>>

UpperHex == {"0", "1", "2", "3", "4", "5", "6", "7", "8", "9",
             "A", "B", "C", "D", "E", "F"}

UpperLetters ==
  {"A", "B", "C", "D", "E", "F", "G", "H", "I", "J", "K", "L", "M",
   "N", "O", "P", "Q", "R", "S", "T", "U", "V", "W", "X", "Y", "Z"}

\* a group of four hexadecimal digits
HexGroup(g) == Len(g) = 4 /\ \A i \in 1..4 : g[i] \in UpperHex

\* the string is a prefix, a slash and hyphen separated groups: 10.5240 with
\* five groups and a check character, or 10.5237 / 10.5239 with two groups
WellFormedId(s) ==
  LET halves == Split(s, "/") IN
  /\ Len(halves) = 2
  /\ LET groups == Split(halves[2], "-") IN
     \/ /\ halves[1] = <<"1", "0", ".", "5", "2", "4", "0">>
        /\ Len(groups) = 6
        /\ \A i \in 1..5 : HexGroup(groups[i])
        /\ Len(groups[6]) = 1
        /\ groups[6][1] \in UpperHex \cup UpperLetters
     \/ /\ halves[1] \in {<<"1", "0", ".", "5", "2", "3", "7">>,
                          <<"1", "0", ".", "5", "2", "3", "9">>}
        /\ Len(groups) = 2
        /\ HexGroup(groups[1]) /\ HexGroup(groups[2])

Probed(fn) == probe.fn = fn /\ probe.pc = "returned"

\* the query object is { id: { <mode>: '<list>' } }
IsIdPredicate(q, mode) ==
  /\ q.t = "object" /\ DOMAIN q.f = {"id"}
  /\ q.f["id"].t = "object" /\ DOMAIN q.f["id"].f = {mode}
  /\ q.f["id"].f[mode].t = "string"

\* the identifiers the predicate lists
ListedIds(q, mode) == Words(q.f["id"].f[mode].v)

\* two or more identifiers, every one of them valid
SeveralValidIds(ids) ==
  Len(ids) >= 2 /\ \A i \in 1..Len(ids) : WellFormedId(ids[i])

\* where the i-th item starts in '(' item sep item .. ')'
RECURSIVE StartOf(_, _, _)
StartOf(items, sepLen, i) ==
  IF i = 1 THEN 2
  ELSE StartOf(items, sepLen, i - 1) + Len(items[i - 1]) + sepLen

\* expr is the items in their order, sep between neighbours, inside one pair
\* of parentheses, and nothing else
JoinedInOrder(expr, items, sep) ==
  LET n     == Len(items)
      close == StartOf(items, Len(sep), n) + Len(items[n])
  IN
  /\ Len(expr) = close
  /\ expr[1] = "(" /\ expr[close] = ")"
  /\ \A i \in 1..n :
       SubSeq(expr, StartOf(items, Len(sep), i),
              StartOf(items, Len(sep), i) + Len(items[i]) - 1) = items[i]
  /\ \A i \in 1..(n - 1) :
       SubSeq(expr, StartOf(items, Len(sep), i) + Len(items[i]),
              StartOf(items, Len(sep), i) + Len(items[i]) + Len(sep) - 1) = sep

\* C15: an id predicate in exact mode with more than one valid identifier
\* fails and produces no expression; the same identifiers in words mode
\* compile to one leaf per identifier, OR-joined in input order.
C15_ExactIdNeedsOneId ==
  Probed("buildJsonQuery") =>
    /\ (IsIdPredicate(probe.arg, "exact")
        /\ SeveralValidIds(ListedIds(probe.arg, "exact")))
       => probe.out.err # NoError /\ probe.out.expr = <<>>
    /\ (IsIdPredicate(probe.arg, "words")
        /\ SeveralValidIds(ListedIds(probe.arg, "words")))
       => /\ probe.out.err = NoError
          /\ JoinedInOrder(
               probe.out.expr,
               [i \in 1..Len(ListedIds(probe.arg, "words")) |->
                  <<"/FullMetadata/BaseObjectData/", "ID", " ">>
                    \o ListedIds(probe.arg, "words")[i]],
               <<" ", "OR", " ">>)

C15_Witness ==
  /\ Probed("buildJsonQuery") /\ IsIdPredicate(probe.arg, "exact")
  /\ ListedIds(probe.arg, "exact") = <<PartyId.v, ContentId.v>>
  /\ probe.out.err.class = "Error"

\* an expression that is empty or blank after trimming
Blank(e) == \A i \in 1..Len(e) : e[i] \in {" ", "\t", "\n"}

\* C16: nary fails when its input sequence is empty or when any element is
\* blank after trimming, so compiling { and: [] } or { or: [] } fails and
\* never returns an expression.
C16_EmptyJoinFails ==
  /\ (Probed("nary")
      /\ \/ Len(probe.arg.expressions) = 0
         \/ \E i \in 1..Len(probe.arg.expressions) :
              Blank(probe.arg.expressions[i]))
     => probe.out.err # NoError
  /\ (Probed("buildJsonQuery")
      /\ probe.arg \in {Obj([and |-> Arr(<<>>)]), Obj([or |-> Arr(<<>>)])})
     => probe.out.err # NoError

\* C17: for expressions none of which is blank, nary returns a single
\* expression unwrapped, and two or more in input order, separated by
\* exactly ' AND ' or ' OR ', inside exactly one outer pair of parentheses.
C17_JoinKeepsOrderOneParenPair ==
  LET es      == probe.arg.expressions
      trimmed == [i \in 1..Len(es) |-> Trim(es[i])]
  IN
  (Probed("nary") /\ Len(es) >= 1 /\ \A i \in 1..Len(es) : ~Blank(es[i]))
  => /\ probe.out.err = NoError
     /\ Len(es) = 1 => probe.out.expr = trimmed[1]
     /\ Len(es) >= 2 =>
          JoinedInOrder(probe.out.expr, trimmed,
                        <<" ", IF probe.arg.op = "and" THEN "AND" ELSE "OR", " ">>)

C17_Witness ==
  /\ Probed("nary") /\ probe.arg.op = "and"
  /\ probe.arg.expressions
       = << <<"(", "x", " ", "OR", " ", "y", ")">>, <<" ", "b", " ">>, <<"a">> >>
  /\ probe.out.err = NoError

\* the value at the end of a path of keys
RECURSIVE GetPath(_, _)
GetPath(x, path) ==
  IF path = <<>> THEN x ELSE GetPath(Get(x, Head(path)), Tail(path))

\* a string, a number or a boolean
IsScalar(x) == x.t \in {"string", "number", "boolean"}

\* C18: normalization is idempotent: parseJsonWithValue applied to a tree it
\* has already normalized changes nothing, normalize(normalize(t)) equals
\* normalize(t), and an object at the final position of a rule is left as it
\* is.
C18_NormalizeIsIdempotent ==
  Probed("parseJsonWithValue") =>
    /\ probe.again = "tree" => probe.json = probe.prev
    /\ probe.again = "result" => probe.ret = probe.first
    /\ LET at == jsonFormatWithValueRules[1] IN
       GetPath(probe.input, at).t = "object"
       => GetPath(probe.json, at) = GetPath(probe.input, at)

C18_Witness ==
  /\ Probed("parseJsonWithValue") /\ probe.again = "tree"
  /\ GetPath(probe.input, jsonFormatWithValueRules[1]) = Str(<<"7">>)
  /\ GetPath(probe.json, jsonFormatWithValueRules[1]) = Wrapped(Str(<<"7">>))

WildcardRule == <<"*", "SequenceInfo", "DistributionNumber">>

\* SequenceInfo.DistributionNumber one key below the tree handed in
OneLevelPaths ==
  {<<"A", "SequenceInfo", "DistributionNumber">>,
   <<"B", "SequenceInfo", "DistributionNumber">>}

\* SequenceInfo.DistributionNumber two keys below the tree handed in
TwoLevelPaths ==
  {<<"A", "X", "SequenceInfo", "DistributionNumber">>,
   <<"ExtraObjectMetadata", "EpisodeInfo", "SequenceInfo", "DistributionNumber">>}

\* the leaf the rule is to wrap: a scalar the final segment does not skip
WrappableLeaf(x) == IsScalar(x) /\ Truthy(x)

\* the wildcard rule has run over a tree
WildcardRan == Probed("parseJsonWithOneRule") /\ probe.fields = WildcardRule

\* under the paths ps, a wrappable leaf is wrapped and a wrapped one is left
WrappedUnder(ps) ==
  \A p \in ps :
    /\ WrappableLeaf(GetPath(probe.input, p))
       => GetPath(probe.json, p) = Wrapped(GetPath(probe.input, p))
    /\ GetPath(probe.input, p).t = "object"
       => GetPath(probe.json, p) = GetPath(probe.input, p)

\* C19 as stated: '*' matches exactly one key level: the leaf under each
\* direct child key is wrapped, a wrapped leaf is left untouched, and a
\* SequenceInfo.DistributionNumber leaf two levels below is not rewritten.
C19_WildcardMatchesOneLevel ==
  WildcardRan =>
    /\ WrappedUnder(OneLevelPaths)
    /\ \A p \in TwoLevelPaths : GetPath(probe.json, p) = GetPath(probe.input, p)

\* C19 amended: '*' matches one or more key levels: the leaf is wrapped, and
\* a wrapped leaf left untouched, under each direct child key and under every
\* deeper key as well; only SequenceInfo.DistributionNumber of the tree
\* itself, with no key above it, is not rewritten.
C19_WildcardMatchesEveryDepth ==
  WildcardRan =>
    /\ WrappedUnder(OneLevelPaths \cup TwoLevelPaths)
    /\ GetPath(probe.json, <<"SequenceInfo", "DistributionNumber">>)
         = GetPath(probe.input, <<"SequenceInfo", "DistributionNumber">>)

C19_Witness ==
  /\ WildcardRan
  /\ GetPath(probe.input, <<"A", "X", "SequenceInfo", "DistributionNumber">>)
       = Str(<<"7">>)
  /\ GetPath(probe.json, <<"A", "X", "SequenceInfo", "DistributionNumber">>)
       = Wrapped(Str(<<"7">>))
  /\ GetPath(probe.input, <<"B", "SequenceInfo", "DistributionNumber">>)
       = Wrapped(Str(<<"9">>))

\* C20: at the final segment of a rule every scalar found under the key is
\* replaced by { value: <scalar> }, 0, false and the empty string included.
C20_EveryScalarIsWrapped ==
  LET at == jsonFormatWithValueRules[1] IN
  (/\ \/ Probed("parseJsonWithValue") /\ probe.runs = 1
      \/ Probed("parseJsonWithOneRule") /\ probe.fields = at
   /\ IsScalar(GetPath(probe.input, at)))
  => GetPath(probe.json, at) = Wrapped(GetPath(probe.input, at))

\* the rule has run over a tree that holds an array at the rule's final key
ArrayAtFinalSegment(at) ==
  /\ \/ Probed("parseJsonWithValue") /\ probe.runs = 1
     \/ Probed("parseJsonWithOneRule") /\ probe.fields = at
  /\ GetPath(probe.input, at).t = "array"

\* C21: at the final segment of a rule, when the value under the key is an
\* array, each scalar element is replaced at its own index of that array by
\* { value: <scalar> }, and no other key of the enclosing object is added or
\* changed.
C21_ArrayItemsWrappedInPlace ==
  LET at     == jsonFormatWithValueRules[1]
      above  == SubSeq(at, 1, Len(at) - 1)
      items  == GetPath(probe.input, at).e
      after  == GetPath(probe.json, at)
      before == GetPath(probe.input, above).f
      now    == GetPath(probe.json, above).f
  IN
  ArrayAtFinalSegment(at) =>
    /\ after.t = "array" /\ Len(after.e) = Len(items)
    /\ \A i \in 1..Len(items) :
         after.e[i] = IF IsScalar(items[i]) THEN Wrapped(items[i]) ELSE items[i]
    /\ DOMAIN now = DOMAIN before
    /\ \A k \in DOMAIN before \ {at[Len(at)]} : now[k] = before[k]

\* the query object is { <element>: { <mode>: '<text>' } } for an element of
\* the field-path table
IsTextPredicate(q) ==
  /\ q.t = "object" /\ Cardinality(DOMAIN q.f) = 1
  /\ \A k \in DOMAIN q.f :
       /\ k \in DOMAIN textElements
       /\ q.f[k].t = "object" /\ Cardinality(DOMAIN q.f[k].f) = 1
       /\ \A m \in DOMAIN q.f[k].f : q.f[k].f[m].t = "string"

TextElement(q) == CHOOSE k \in DOMAIN q.f : TRUE

TextMode(q) == CHOOSE m \in DOMAIN q.f[TextElement(q)].f : TRUE

TextArgument(q) == q.f[TextElement(q)].f[TextMode(q)].v

\* the tokens of a text: its maximal runs of characters that are not
\* whitespace, in their order
RECURSIVE TokensFrom(_, _)
TokensFrom(s, cur) ==
  IF s = <<>> THEN (IF cur = <<>> THEN <<>> ELSE <<cur>>)
  ELSE IF Head(s) \in {" ", "\t", "\n"}
    THEN (IF cur = <<>> THEN <<>> ELSE <<cur>>) \o TokensFrom(Tail(s), <<>>)
  ELSE TokensFrom(Tail(s), Append(cur, Head(s)))

\* the tokens with one space between neighbours
RECURSIVE SpaceJoined(_)
SpaceJoined(tokens) ==
  IF Len(tokens) = 0 THEN <<>>
  ELSE IF Len(tokens) = 1 THEN tokens[1]
  ELSE tokens[1] \o <<" ">> \o SpaceJoined(Tail(tokens))

\* the leaves the claim lists for a text predicate, paths first
TextLeaves(q) ==
  LET paths  == textElements[TextElement(q)]
      tokens == TokensFrom(TextArgument(q), <<>>)
      np     == Len(paths)
      nt     == Len(tokens)
      at(p)  == <<"/FullMetadata/BaseObjectData/">> \o paths[p]
  IN
  IF TextMode(q) = "words" THEN
    [n \in 1..(np * nt) |->
       <<"(">> \o at(((n - 1) \div nt) + 1) \o <<" ">>
       \o tokens[((n - 1) % nt) + 1] \o <<")">>]
  ELSE IF TextMode(q) = "contains" THEN
    [p \in 1..np |->
       <<"(">> \o at(p) \o <<" ", "\"">> \o SpaceJoined(tokens) \o <<"\"", ")">>]
  ELSE
    [p \in 1..np |->
       <<"(">> \o at(p) \o <<" ", "IS", " ", "\"">> \o SpaceJoined(tokens)
       \o <<"\"", ")">>]

\* C22: a text predicate splits its argument on whitespace, drops empty
\* tokens and fails when no token remains; words gives one loose leaf per
\* (field path, token) pair, contains one leaf per field path on the tokens
\* re-joined by single spaces in quotes, exact the same with IS, all
\* OR-joined; any other mode fails.
C22_TextPredicateTokenizesOnWhitespace ==
  (Probed("buildJsonQuery") /\ IsTextPredicate(probe.arg)) =>
    LET q      == probe.arg
        tokens == TokensFrom(TextArgument(q), <<>>)
        leaves == TextLeaves(q)
    IN
    IF tokens = <<>> \/ TextMode(q) \notin {"words", "contains", "exact"}
      THEN probe.out.err # NoError
      ELSE /\ probe.out.err = NoError
           /\ Len(leaves) = 1 => probe.out.expr = leaves[1]
           /\ Len(leaves) >= 2
                => JoinedInOrder(probe.out.expr, leaves, <<" ", "OR", " ">>)

\* the query object is { exists: '<element>' }
IsExistsPredicate(q) ==
  q.t = "object" /\ DOMAIN q.f = {"exists"} /\ q.f["exists"].t = "string"

\* the element an exists predicate names
ExistsElement(q) == q.f["exists"].v

\* (<path> EXISTS) on a path of the base object tree
ExistsOn(path) ==
  <<"(", "/FullMetadata/BaseObjectData/">> \o path \o <<" ", "EXISTS", ")">>

\* the elements of the field-path table with exactly one field path
SinglePathElements ==
  {k \in DOMAIN textElements : Len(textElements[k]) = 1}

\* C23: exists compiles to the ReleaseDate / ApproximateLength EXISTS leaf for
\* date / length; any other element succeeds only when it is in the
\* field-path table with exactly one field path, giving the EXISTS leaf on
\* that path; unknown elements and elements with more than one path fail.
C23_ExistsNeedsOneFieldPath ==
  (Probed("buildJsonQuery") /\ IsExistsPredicate(probe.arg)) =>
    LET e == ExistsElement(probe.arg) IN
    IF e = <<"date">>
      THEN probe.out = Ret(ExistsOn(<<"ReleaseDate">>))
    ELSE IF e = <<"length">>
      THEN probe.out = Ret(ExistsOn(<<"ApproximateLength">>))
    ELSE IF \E k \in SinglePathElements : e = <<k>>
      THEN \A k \in SinglePathElements :
             e = <<k>> => probe.out = Ret(ExistsOn(textElements[k][1]))
    ELSE probe.out.err # NoError /\ probe.out.expr = <<>>

\* the atoms a field path of either object tree starts with
PathStarts ==
  {"/FullMetadata/BaseObjectData/", "/FullMetadata/ExtraObjectMetadata/"}

\* how many parentheses are open after the first n atoms of an expression
Depth(e, n) ==
  Cardinality({i \in 1..n : e[i] = "("}) - Cardinality({i \in 1..n : e[i] = ")"})

\* every parenthesis that closes has been opened, and none is left open
WellParenthesized(e) ==
  /\ \A n \in 1..Len(e) : Depth(e, n) >= 0
  /\ Depth(e, Len(e)) = 0

\* the leaf whose path starts at position i is (<path> <op> <value>): an
\* opening parenthesis right before the path, and a closing one after it
\* with no parenthesis, no joiner and no other path in between
LeafEnclosed(e, i) ==
  /\ i > 1 /\ e[i - 1] = "("
  /\ \E j \in (i + 1)..Len(e) :
       /\ e[j] = ")"
       /\ \A m \in (i + 1)..(j - 1) :
            e[m] \notin {"(", ")", "OR", "AND", "NOT"} \cup PathStarts

\* C24: every leaf of the compiler's output is enclosed in its own pair of
\* parentheses as (<path> <op> <value>), whatever the predicate and its mode,
\* the per-identifier leaves of an id predicate in words mode included, and
\* the output as a whole is well-parenthesized.
C24_EveryLeafInItsOwnParentheses ==
  (Probed("buildJsonQuery") /\ probe.out.err = NoError) =>
    LET e == probe.out.expr IN
    /\ WellParenthesized(e)
    /\ \A i \in 1..Len(e) : e[i] \in PathStarts => LeafEnclosed(e, i)

\* the compiler rejects the query object of the call
CompilerRejects(k) ==
  /\ TypeOf(k.args.exprOrObj) = "object"
  /\ buildJsonQuery(k.args.exprOrObj).err # NoError

\* the credential set in force for a call is there and is registered
EffectiveRegistered(k) ==
  IF Truthy(k.args.credentials)
    THEN /\ Authorization(k.args.credentials).err = NoError
         /\ Authorization(k.args.credentials).registered
    ELSE authorization.registered

\* C25: query checks authorization before it compiles the query: with an
\* unregistered credential set and a query object the compiler would reject
\* it fails with the 401 Unregistered error, not the compiler's; with a
\* registered credential set and the same object it fails with the
\* compiler's error.
C25_QueryAuthorizesBeforeCompiling ==
  \A c \in Slots :
    LET k == call[c] IN
    (k.op = "query" /\ CompilerRejects(k)) =>
      /\ EffectiveUnregistered(k)
         => /\ k.pc = "done" /\ k.sent = <<>>
            /\ k.err.class = "EIDRError" /\ k.err.status = 401
            /\ k.err.message = <<"EIDRConnector: ", "Unregistered">>
            /\ k.err # buildJsonQuery(k.args.exprOrObj).err
      /\ EffectiveRegistered(k)
         => /\ k.pc = "done" /\ k.sent = <<>>
            /\ k.err = buildJsonQuery(k.args.exprOrObj).err

C25_Witness ==
  \E c \in Slots :
    /\ call[c].op = "query" /\ call[c].pc = "done"
    /\ call[c].args.exprOrObj = Obj([name |-> Str(<<"star">>)])
    /\ call[c].args.credentials = AnonymousCredentials
    /\ EffectiveUnregistered(call[c])
    /\ call[c].err.status = 401

\* a resolve call with a valid identifier of a resolvable namespace, per-call
\* credentials that Authorization rejects and a view no namespace supports
BadCredentialsAndView(k) ==
  /\ k.op = "resolve" /\ k.pc = "done"
  /\ validateId(k.args.id)
  /\ IsContent(k.args.id) \/ IsOther(k.args.id)
  /\ BadCredentials(k)
  /\ ViewOf(k) \notin SevenViews

\* the same call made for an identifier of the other kind of namespace
InOtherNamespace(k) ==
  resolveStart(authorization,
               IF IsContent(k.args.id) THEN PartyId ELSE ContentId,
               k.args.type, k.args.credentials, k.args.apiVersion)

\* C26: resolve orders its local checks the same way for every namespace:
\* with both invalid per-call credentials and an unsupported view it reports
\* the same error kind for a content identifier as for a party or service
\* identifier.
C26_SameCheckOrderInEveryNamespace ==
  \A c \in Slots :
    LET k == call[c] IN
    BadCredentialsAndView(k) =>
      /\ k.err.message = InOtherNamespace(k).err.message
      /\ k.err.status = InOtherNamespace(k).err.status

\* the authorization a call selects: the one built from its per-call
\* credentials, the connector's own when it passes none
SelectedFor(k) ==
  IF Truthy(k.args.credentials) THEN Authorization(k.args.credentials)
  ELSE authorization

\* the connector's authorization is one a constructor call has established
EstablishedAtConstruction ==
  \E i \in 1..Len(ConstructorInputs) :
    authorization = Authorization(ConstructorInputs[i])

\* every request a call has sent went to the endpoint, and with the headers,
\* of the authorization selected for that call
SentWithOwnAuthorization ==
  \A c \in Slots : \A n \in 1..Len(call[c].sent) :
    /\ StartsWith(call[c].sent[n].url, SelectedFor(call[c]).endpoint)
    /\ call[c].sent[n].Authorization = SelectedFor(call[c]).headers

\* C27: per-call credentials never change the connector's own authorization:
\* whatever calls of query, resolve and graphTraversal with per-call
\* credentials have run or are still waiting, the connector's authorization
\* stays the one established at construction, a call without per-call
\* credentials sends that endpoint and those headers, and every request is
\* sent with the authorization selected for its own call.
C27_PerCallCredentialsLeaveConnectorAlone ==
  /\ [](EstablishedAtConstruction /\ SentWithOwnAuthorization)
  /\ [][authorization' = authorization]_vars

\* a call with per-call credentials is waiting for its answer while a call
\* without them has sent its request, each under its own authorization
C27_Witness ==
  /\ authorization = Authorization(ShadowCredentials)
  /\ call[1].op = "query" /\ call[1].pc = "awaiting"
  /\ call[1].args.credentials = RegisteredString
  /\ call[1].sent[1].Authorization = Authorization(RegisteredString).headers
  /\ call[2].op = "resolve" /\ call[2].pc = "awaiting"
  /\ call[2].args.credentials = Undefined
  /\ call[2].sent[1].Authorization = Authorization(ShadowCredentials).headers
  /\ call[2].sent[1].Authorization # call[1].sent[1].Authorization
  /\ StartsWith(call[2].sent[1].url, <<"https://", "sandbox.eidr.org", "/EIDR/">>)

\* a call made with a credentials string that Authorization accepts, which
\* has sent its request
AcceptedString(k) ==
  /\ k.args.credentials.t = "string"
  /\ CredentialsRe(k.args.credentials.v)
  /\ Len(k.sent) >= 1

\* C28: for every credentials string that Authorization accepts, the
\* Authorization header it produces is exactly the supplied string, and the
\* credential set is marked registered.
C28_HeaderIsTheSuppliedString ==
  \A c \in Slots :
    LET k == call[c] IN
    AcceptedString(k) =>
      /\ k.sent[1].Authorization = k.args.credentials.v
      /\ Authorization(k.args.credentials).registered

====
